---- MODULE Spec2Model ----
(***************************************************************************)
(* Model of the invite-state extraction pipeline of the nexusinvitee       *)
(* plugin: the page classifier and pagination walker of                    *)
(* sites/nexusphp.py (NexusPhpHandler) and the per-site pipelines and      *)
(* batch refresh of __init__.py (class nexusinvitee).                      *)
(*                                                                         *)
(* An HTML document is represented by the features the code reads from it  *)
(* (selectors that match, regular expressions that match its text, the     *)
(* number of roster rows the table parser extracts).  Python dicts are     *)
(* functions with string domains, so that a missing key is a missing       *)
(* domain element.  A reason string is the sequence of the parts it is     *)
(* formatted from; each part is a 4-tuple <<text, n1, n2, n3>>.  Message   *)
(* texts are ASCII renderings of the Chinese literals of the source.       *)
(***************************************************************************)
EXTENDS Integers, Sequences, FiniteSets, TLC

VARIABLES
    pc,              \* position in the running method
    ret,             \* the dict returned by the running method
    page,            \* classifier: the document handed to the parser
    cres,            \* classifier: the parser's return value
    row,             \* row parser: the <tr> handed to the column loop
    row_invitees,    \* row parser: what the row added to result["invitees"]
    size_text,       \* _convert_size_to_bytes: its argument size_str
    bytes,           \* _convert_size_to_bytes: its return value
    send_page,       \* send-invite check: the invite.php?type=new document
    invite_result,   \* parse_invite_page: the dict being assembled
    next_page,       \* parse_invite_page: loop variable of the walker
    fetched,         \* parse_invite_page: rows of the roster pages requested so far
    first,           \* what page one showed: restriction text, parsed status
    site,            \* _get_site_invite_data: the site being processed
    requests,        \* _get_site_invite_data: the requests issued, in order
    raised,          \* _get_site_invite_data: the calls that raised
    valid_sites,     \* refresh_all_sites: the sites to refresh, in order
    idx,             \* refresh_all_sites: sites processed so far
    success_count,   \* refresh_all_sites
    error_count,     \* refresh_all_sites
    cached_data,     \* self._config["cached_data"]
    outcomes,        \* refresh_all_sites: what each processed site returned
    tables,          \* roster location: the <table> elements of the document, in order
    shop,            \* _parse_bonus_shop: the mybonus.php document
    bonus_data,      \* _parse_bonus_shop: its return value
    site_url,        \* NexusPhpHandler.match: its argument
    matched          \* NexusPhpHandler.match: its return value

cvars == <<page, cres, row, row_invitees, size_text, bytes, send_page>>
wvars == <<invite_result, next_page, fetched, first>>
svars == <<site, requests, raised>>
rvars == <<valid_sites, idx, success_count, error_count, cached_data, outcomes>>
pvars == <<tables, shop, bonus_data, site_url, matched>>
vars == <<pc, ret, cvars, wvars, svars, rvars, pvars>>

(***************************************************************************)
(* Bounds of the explored inputs.                                          *)
(***************************************************************************)
MaxCount == 1        \* largest invite count written on a page
MaxPhrases == 2      \* most restriction patterns one page text matches
OverfullPages == 1   \* roster pages 1..OverfullPages may hold page_size + 1 rows
MaxSites == 3        \* sites of one refresh

(***************************************************************************)
(* Program constants.                                                      *)
(***************************************************************************)
page_size == 50      \* rows below which a roster page is the last one
max_pages == 100     \* cap of the pagination loop
min_price == 100     \* smallest invite price the shop parser accepts

NoGroup == 0 - 1     \* an optional regex group that did not take part (None)

(***************************************************************************)
(* Dict helpers.                                                           *)
(***************************************************************************)
Put(d, k, v) == [x \in (DOMAIN d) \cup {k} |-> IF x = k THEN v ELSE d[x]]

Has(d, k) == k \in DOMAIN d

Part(s, a, b, c) == <<s, a, b, c>>

Lit(s) == <<Part(s, 0, 0, 0)>>

(***************************************************************************)
(* error_patterns, in list order.  Pattern i matching the page text is     *)
(* i \in page.text; Match(i) is matches.group(0) of pattern i.             *)
(***************************************************************************)
error_patterns ==
    << "no invite permission",                    \* 1
       "cannot use invites",                      \* 2
       "no invite quota available at present",    \* 3
       "below the required class",                \* 4
       "a higher user class is needed",           \* 5
       "cannot register by invite",               \* 6
       "account limit reached",                   \* 7
       "sorry, registration is closed",           \* 8
       "invited registrations reached the limit", \* 9
       "duibuqi (sorry)",                         \* 10
       "only class .* can send invites",          \* 11
       "and above .* can send invites",           \* 12
       "\\w+\\s*or above can send invites" >>     \* 13

Match(i) == <<Part("match", i, 0, 0)>>

NumPatterns == Len(error_patterns)

(***************************************************************************)
(* Input documents.  A two-group count match is [hit, g1, g2]: g1 is the   *)
(* permanent count, g2 the temporary count or NoGroup.                     *)
(***************************************************************************)
NoMatch == [hit |-> FALSE, g1 |-> 0, g2 |-> NoGroup]

\* the invite counts explored: none and the largest
Counts == {0, MaxCount}

CountMatches ==
    {[hit |-> TRUE, g1 |-> a, g2 |-> b] : a \in Counts, b \in {NoGroup} \cup Counts}

Texts == {t \in SUBSET (1..NumPatterns) : Cardinality(t) <= MaxPhrases}

RowChoices == {0, page_size - 1, page_size}

\* The quota region of a document: no #info_block, a block without the
\* invite link, a link whose parent text matches invite_pattern, a link
\* whose following sibling text matches after_pattern, or neither.
QuotaBlocks ==
    {[info_block |-> FALSE, invite_link |-> FALSE, parent_match |-> NoMatch, after_match |-> NoMatch],
     [info_block |-> TRUE, invite_link |-> FALSE, parent_match |-> NoMatch, after_match |-> NoMatch],
     [info_block |-> TRUE, invite_link |-> TRUE, parent_match |-> NoMatch, after_match |-> NoMatch]}
    \cup {[info_block |-> TRUE, invite_link |-> TRUE, parent_match |-> m, after_match |-> NoMatch] : m \in CountMatches}
    \cup {[info_block |-> TRUE, invite_link |-> TRUE, parent_match |-> NoMatch, after_match |-> m] : m \in CountMatches}

\* Table structure: nested tables under table.main, some other table, none.
\* Roster rows need a table.
Tables ==
    {[main_tables |-> TRUE, any_tables |-> TRUE],
     [main_tables |-> FALSE, any_tables |-> TRUE],
     [main_tables |-> FALSE, any_tables |-> FALSE]}

\* the features only the plugin's parser reads, all absent
NoExtras ==
    [sorry |-> "none", submit |-> FALSE, count_match |-> NoMatch, temp_match |-> NoMatch,
     special_title |-> FALSE, disabled_button |-> FALSE, special_rows |-> 0]

MkPageWith(q, tb, tx, f, n, r, x) ==
    [no |-> n, info_block |-> q.info_block, invite_link |-> q.invite_link,
     parent_match |-> q.parent_match, after_match |-> q.after_match,
     main_tables |-> tb.main_tables, any_tables |-> tb.any_tables,
     text |-> tx, form |-> f, rows |-> r,
     sorry |-> x.sorry, submit |-> x.submit, count_match |-> x.count_match,
     temp_match |-> x.temp_match, special_title |-> x.special_title,
     disabled_button |-> x.disabled_button, special_rows |-> x.special_rows]

MkPage(q, tb, tx, f, n, r) == MkPageWith(q, tb, tx, f, n, r, NoExtras)

PagesNo(n, rowset) ==
    {MkPage(q, tb, tx, f, n, r) :
        q \in QuotaBlocks, tb \in Tables, tx \in Texts, f \in BOOLEAN,
        r \in rowset} 

Pages == {p \in PagesNo(1, RowChoices) : p.rows > 0 => p.any_tables}

(***************************************************************************)
(* NexusPhpHandler._parse_nexusphp_invite_page                             *)
(***************************************************************************)
EmptyStatus ==
    [can_invite |-> FALSE, reason |-> <<>>, permanent_count |-> 0, temporary_count |-> 0]

QuotaReason(p, t) == <<Part("available invites: permanent=, temporary=", p, t, 0)>>

PageErrorReason == Lit("page parse error, maybe not logged in or special site structure")

RestrictionReason(i) == Lit("cannot send invites: ") \o Match(i)

FormReason == Lit("invite form exists, invites can be sent")

\* nexusphp.py 327-341 and 358-372: the counts of a match and the
\* tentative permission they give
ApplyCounts(st, m) ==
    LET s1 == [st EXCEPT !.permanent_count = m.g1]
        s2 == IF m.g2 # NoGroup THEN [s1 EXCEPT !.temporary_count = m.g2] ELSE s1
    IN  IF s2.permanent_count > 0 \/ s2.temporary_count > 0
        THEN [s2 EXCEPT !.can_invite = TRUE,
                        !.reason = QuotaReason(s2.permanent_count, s2.temporary_count)]
        ELSE s2

\* nexusphp.py 308-372
QuotaStatus(p) ==
    IF ~p.info_block \/ ~p.invite_link THEN EmptyStatus
    ELSE IF p.parent_match.hit THEN ApplyCounts(EmptyStatus, p.parent_match)
    ELSE IF p.after_match.hit THEN ApplyCounts(EmptyStatus, p.after_match)
    ELSE EmptyStatus

\* nexusphp.py 413-421: for pattern in error_patterns ... break.
\* The index of the first pattern of the list that matches, 0 if none.
RECURSIVE ScanPatterns(_, _)
ScanPatterns(text, i) ==
    IF i > NumPatterns THEN 0
    ELSE IF i \in text THEN i
    ELSE ScanPatterns(text, i + 1)

\* nexusphp.py 406-421
RestrictionStatus(st, text) ==
    LET i == ScanPatterns(text, 1)
    IN  IF i = 0 THEN st
        ELSE [st EXCEPT !.can_invite = FALSE, !.reason = RestrictionReason(i)]

\* nexusphp.py 423-430
FormStatus(st, p) ==
    IF p.form /\ ScanPatterns(p.text, 1) = 0
    THEN [st EXCEPT !.can_invite = TRUE,
                    !.reason = IF st.reason = <<>> THEN FormReason ELSE st.reason]
    ELSE st

\* nexusphp.py 432-687: the rows the roster parser appends, as one block
\* <<page number, number of rows>>
Roster(p) == IF p.rows = 0 THEN <<>> ELSE <<<<p.no, p.rows>>>>

\* nexusphp.py 276-687
parse_nexusphp_invite_page(p, is_next_page) ==
    IF is_next_page
    THEN [invite_status |-> EmptyStatus, invitees |-> Roster(p)]
    ELSE IF ~p.main_tables /\ ~p.any_tables
    THEN [invite_status |-> [QuotaStatus(p) EXCEPT !.reason = PageErrorReason],
          invitees |-> <<>>]
    ELSE [invite_status |-> FormStatus(RestrictionStatus(QuotaStatus(p), p.text), p),
          invitees |-> Roster(p)]

\* len(result["invitees"])
RECURSIVE RowCount(_)
RowCount(invitees) ==
    IF invitees = <<>> THEN 0 ELSE Head(invitees)[2] + RowCount(Tail(invitees))

(***************************************************************************)
(* NexusPhpHandler.parse_invite_page                                       *)
(***************************************************************************)
\* nexusphp.py 83-94
result ==
    [invite_status |->
        [can_invite |-> FALSE, reason |-> <<>>, permanent_count |-> 0,
         temporary_count |-> 0, bonus |-> 0, permanent_invite_price |-> 0,
         temporary_invite_price |-> 0],
     invitees |-> <<>>]

\* str(e) of a caught exception
ExcText == <<Part("str(e)", 0, 0, 0)>>

UserIdReason == Lit("cannot get the user id, check that the site cookie is valid")

ParseFailedReason == Lit("failed to parse the invite page: ") \o ExcText

SendReason == Lit("invites can be sent")

\* the text of the element around a "sorry" message of the send-invite page
SendRestrictionText == <<Part("restriction_text", 0, 0, 0)>>

\* nexusphp.py 99-102
UserIdFailure == [result EXCEPT !.invite_status.reason = UserIdReason]

\* nexusphp.py 271-274
ExceptionResult == [result EXCEPT !.invite_status.reason = ParseFailedReason]

\* nexusphp.py 113: the first page is the only page
SinglePage(invitees) == RowCount(invitees) < page_size

\* a loop condition that lets the walker request one page more
LoopGuardOffByOne(np) == np <= max_pages

\* nexusphp.py 125: the loop condition
LoopGuard(np) == np < max_pages

\* nexusphp.py 137: the page yields no rows
EmptyPage(invitees) == invitees = <<>>

\* a walker that does not take a short page for the last one
ShortPageNever(invitees) == FALSE

\* nexusphp.py 142: the page is the last one
ShortPage(invitees) == RowCount(invitees) < page_size

\* nexusphp.py 145 and 150: invite_result["invitees"].extend(...)
Extend(r, invitees) == [r EXCEPT !.invitees = @ \o invitees]

\* a roster page request that raised
FetchFailed == 0 - 1

\* The walker's inputs explore few restriction texts.
WalkTexts == {t \in Texts : t \subseteq {1, 10, NumPatterns}}

FirstPages ==
    {p \in PagesNo(1, RowChoices \cup {page_size + 1}) :
        /\ p.rows > 0 => p.any_tables
        /\ p.text \in WalkTexts}

NextRows(n) ==
    RowChoices \cup (IF n <= OverfullPages THEN {page_size + 1} ELSE {})

\* a follow-up roster page: only its rows are read
NextPage(n, r) ==
    MkPage([info_block |-> FALSE, invite_link |-> FALSE, parent_match |-> NoMatch,
            after_match |-> NoMatch],
           [main_tables |-> FALSE, any_tables |-> TRUE], {}, FALSE, n, r)

\* mybonus.php as _parse_bonus_shop reads it: a balance and two prices,
\* a price being 0 (not found) or at least min_price
BonusData ==
    [bonus : {0, 2 * min_price + 50},
     permanent_invite_price : {0, min_price},
     temporary_invite_price : {0, 2 * min_price}]

CanBuy(bonus, price) == IF price > 0 THEN bonus \div price ELSE 0

\* nexusphp.py 188-195 and 205-212
InviteMethod(bd) ==
    LET cbt == CanBuy(bd.bonus, bd.temporary_invite_price)
        cbp == CanBuy(bd.bonus, bd.permanent_invite_price)
        t == IF cbt > 0 /\ bd.temporary_invite_price > 0
             THEN <<Part("temporary invites (n, price each)", cbt, bd.temporary_invite_price, 0)>>
             ELSE <<>>
        sep == IF t # <<>> THEN Lit(",") ELSE <<>>
    IN  IF cbp > 0 /\ bd.permanent_invite_price > 0
        THEN t \o sep \o <<Part("permanent invites (n, price each)", cbp, bd.permanent_invite_price, 0)>>
        ELSE t

\* nexusphp.py 168-215
WalletMerge(st, bd) ==
    LET s1 == Put(Put(Put(st, "bonus", bd.bonus),
                      "permanent_invite_price", bd.permanent_invite_price),
                  "temporary_invite_price", bd.temporary_invite_price)
        cbt == CanBuy(bd.bonus, bd.temporary_invite_price)
        cbp == CanBuy(bd.bonus, bd.permanent_invite_price)
        m == InviteMethod(bd)
    IN  IF bd.bonus <= 0 \/ ~(cbt > 0 \/ cbp > 0) \/ m = <<>> THEN s1
        ELSE IF s1.reason # <<>> /\ ~s1.can_invite
        THEN LET s2 == [s1 EXCEPT !.reason =
                            @ \o <<Part(", but your bonus () can buy", bd.bonus, 0, 0)>> \o m]
             IN  IF s2.permanent_count = 0 /\ s2.temporary_count = 0
                 THEN [s2 EXCEPT !.can_invite = TRUE]
                 ELSE s2
        ELSE IF s1.reason # <<>>
        THEN [s1 EXCEPT !.reason = @ \o <<Part(", bonus () can buy", bd.bonus, 0, 0)>> \o m]
        ELSE s1

\* nexusphp.py 231-236
SendForm(st) ==
    [st EXCEPT !.can_invite = TRUE,
               !.reason = IF st.reason = <<>> THEN SendReason ELSE st.reason]

\* nexusphp.py 239-260
SendSorry(st) == [st EXCEPT !.can_invite = FALSE, !.reason = SendRestrictionText]

WalkIdle ==
    /\ invite_result = result
    /\ ret = result
    /\ next_page = 0
    /\ fetched = <<>>
    /\ first = [restricted |-> FALSE, status |-> EmptyStatus]

\* no row is being parsed, no size converted
NoRow == [classes |-> {}, disabled_img |-> FALSE, cells |-> <<>>]

NoBytes == [huge |-> FALSE, milli |-> 0, e1024 |-> 0]

NoSend == [form |-> FALSE, submit |-> FALSE, no_slot |-> FALSE, sorry |-> FALSE]

NoShop == [elements |-> <<>>, page_matches |-> <<>>, price_rows |-> <<>>]

NoBonus == [bonus |-> 0, permanent_invite_price |-> 0, temporary_invite_price |-> 0]

\* no document is being searched
ParseIdle ==
    /\ tables = <<>>
    /\ shop = NoShop
    /\ bonus_data = NoBonus
    /\ site_url = <<>>
    /\ matched = FALSE

RowIdle ==
    /\ ParseIdle
    /\ row = NoRow
    /\ row_invitees = <<>>
    /\ size_text = <<>>
    /\ bytes = NoBytes
    /\ send_page = NoSend

ClassifyIdle ==
    /\ page = NextPage(0, 0)
    /\ cres = result
    /\ RowIdle

\* no site is being processed
NoSite ==
    [known |-> FALSE, selected |-> FALSE, url |-> FALSE, tokens |-> {},
     cookie |-> FALSE, ua |-> FALSE, api_key |-> FALSE, authorization |-> FALSE]

SiteIdle ==
    /\ site = NoSite
    /\ requests = <<>>
    /\ raised = {}

RefreshIdle ==
    /\ valid_sites = <<>>
    /\ idx = 0
    /\ success_count = 0
    /\ error_count = 0
    /\ cached_data = <<>>
    /\ outcomes = <<>>

Init == pc = "start" /\ WalkIdle /\ ClassifyIdle /\ SiteIdle /\ RefreshIdle

Return(r) ==
    /\ ret' = r
    /\ pc' = "done"

\* nexusphp.py 98-102: no user id
UserIdNone ==
    /\ pc = "start"
    /\ Return(UserIdFailure)
    /\ UNCHANGED <<cvars, svars, rvars, wvars, pvars>>

\* nexusphp.py 98, 271-274: the lookup raises
UserIdRaises ==
    /\ pc = "start"
    /\ Return(ExceptionResult)
    /\ UNCHANGED <<cvars, svars, rvars, wvars, pvars>>

\* nexusphp.py 98: a user id is found
UserIdFound ==
    /\ pc = "start"
    /\ pc' = "first"
    /\ UNCHANGED <<ret, cvars, svars, rvars, wvars, pvars>>

\* nexusphp.py 105-107, 271-274: the first request raises
FirstRaises ==
    /\ pc = "first"
    /\ fetched' = <<FetchFailed>>
    /\ Return(ExceptionResult)
    /\ UNCHANGED <<cvars, svars, rvars, invite_result, next_page, first, pvars>>

\* nexusphp.py 105-121
FetchFirstFrom(pages) ==
    /\ pc = "first"
    /\ \E p \in pages :
         LET r == parse_nexusphp_invite_page(p, FALSE)
         IN  /\ invite_result' = r
             /\ fetched' = <<p.rows>>
             /\ first' = [restricted |-> p.text # {}, status |-> r.invite_status]
             /\ IF SinglePage(r.invitees)
                THEN Return(r) /\ UNCHANGED next_page
                ELSE pc' = "loop" /\ next_page' = 1 /\ UNCHANGED ret
    /\ UNCHANGED <<cvars, svars, rvars, pvars>>

FetchFirst == FetchFirstFrom(FirstPages)

\* nexusphp.py 125: the loop condition fails
LoopCap ==
    /\ pc = "loop"
    /\ ~LoopGuard(next_page)
    /\ pc' = "wallet"
    /\ UNCHANGED <<ret, cvars, svars, rvars, wvars, pvars>>

\* a walker whose follow-up request is not guarded: the exception reaches
\* the outer handler
NextRaisesToOuter ==
    /\ pc = "loop"
    /\ LoopGuard(next_page)
    /\ fetched' = Append(fetched, FetchFailed)
    /\ Return(ExceptionResult)
    /\ UNCHANGED <<cvars, svars, rvars, invite_result, next_page, first, pvars>>

\* nexusphp.py 129-131, 156-158: the request or the parse raises
NextRaises ==
    /\ pc = "loop"
    /\ LoopGuard(next_page)
    /\ fetched' = Append(fetched, FetchFailed)
    /\ pc' = "wallet"
    /\ UNCHANGED <<ret, cvars, svars, rvars, invite_result, next_page, first, pvars>>

\* nexusphp.py 126-154
\* a loop body that keeps the whole result of the follow-up page's parse
WalkNextTakesResult(q) ==
    LET r == parse_nexusphp_invite_page(q, TRUE)
    IN  /\ fetched' = Append(fetched, q.rows)
        /\ IF EmptyPage(r.invitees)
           THEN pc' = "wallet" /\ UNCHANGED <<invite_result, next_page>>
           ELSE IF ShortPage(r.invitees)
           THEN /\ invite_result' = Extend([r EXCEPT !.invitees = invite_result.invitees], r.invitees)
                /\ pc' = "wallet"
                /\ UNCHANGED next_page
           ELSE /\ invite_result' = Extend([r EXCEPT !.invitees = invite_result.invitees], r.invitees)
                /\ next_page' = next_page + 1
                /\ pc' = "loop"

\* nexusphp.py 136-154: the body of the loop for the answered page q
WalkNext(q) ==
    LET r == parse_nexusphp_invite_page(q, TRUE)
    IN  /\ fetched' = Append(fetched, q.rows)
        /\ IF EmptyPage(r.invitees)
           THEN pc' = "wallet" /\ UNCHANGED <<invite_result, next_page>>
           ELSE IF ShortPage(r.invitees)
           THEN /\ invite_result' = Extend(invite_result, r.invitees)
                /\ pc' = "wallet"
                /\ UNCHANGED next_page
           ELSE /\ invite_result' = Extend(invite_result, r.invitees)
                /\ next_page' = next_page + 1
                /\ pc' = "loop"

FetchNext ==
    /\ pc = "loop"
    /\ LoopGuard(next_page)
    /\ \E n \in NextRows(next_page + 1) : WalkNext(NextPage(next_page + 1, n))
    /\ UNCHANGED <<ret, cvars, svars, rvars, first, pvars>>

\* nexusphp.py 161-164, 217-218: the request raises or does not answer 200
WalletSkipped ==
    /\ pc = "wallet"
    /\ pc' = "send"
    /\ UNCHANGED <<ret, cvars, svars, rvars, wvars, pvars>>

\* nexusphp.py 161-215
Wallet ==
    /\ pc = "wallet"
    /\ \E bd \in BonusData :
         invite_result' = [invite_result EXCEPT !.invite_status = WalletMerge(@, bd)]
    /\ pc' = "send"
    /\ UNCHANGED <<ret, cvars, svars, rvars, next_page, fetched, first, pvars>>

\* nexusphp.py 222-224, 262-263: RequestException, swallowed;
\* 237-260: no form and no "sorry" text with a parent element
SendNothing ==
    /\ pc = "send"
    /\ Return(invite_result)
    /\ UNCHANGED <<cvars, svars, rvars, wvars, pvars>>

\* nexusphp.py 222-227, 271-274: another exception reaches the outer handler
SendRaises ==
    /\ pc = "send"
    /\ Return(ExceptionResult)
    /\ UNCHANGED <<cvars, svars, rvars, wvars, pvars>>

\* nexusphp.py 230-236
SendHasForm ==
    /\ pc = "send"
    /\ invite_result' = [invite_result EXCEPT !.invite_status = SendForm(@)]
    /\ Return(invite_result')
    /\ UNCHANGED <<cvars, svars, rvars, next_page, fetched, first, pvars>>

\* nexusphp.py 237-260
SendHasSorry ==
    /\ pc = "send"
    /\ invite_result' = [invite_result EXCEPT !.invite_status = SendSorry(@)]
    /\ Return(invite_result')
    /\ UNCHANGED <<cvars, svars, rvars, next_page, fetched, first, pvars>>

Next ==
    \/ UserIdNone
    \/ UserIdRaises
    \/ UserIdFound
    \/ FirstRaises
    \/ FetchFirst
    \/ LoopCap
    \/ NextRaises
    \/ FetchNext
    \/ WalletSkipped
    \/ Wallet
    \/ SendNothing
    \/ SendRaises
    \/ SendHasForm
    \/ SendHasSorry

Spec == Init /\ [][Next]_vars

(***************************************************************************)
(* nexusinvitee._parse_nexusphp_invite_page (__init__.py): the plugin's    *)
(* own copy of the page parser, with more heuristics.  Besides the         *)
(* features of a handler page it reads:                                    *)
(*   sorry          "none", "plain" or "limit": a text node with "sorry"   *)
(*                  and, for "limit", an enclosing td/div/p whose text     *)
(*                  names a class or account limit                         *)
(*   submit         an invite-related submit button inside a form          *)
(*   count_match    first match of invite_count_patterns on the page text  *)
(*   temp_match     first match of temp_invite_patterns on the page text   *)
(*   special_title  the h1 names the invite system                         *)
(*   disabled_button  the disabled "class required" submit input           *)
(*   special_rows   rows of the first border=1 table read as rowfollow     *)
(***************************************************************************)
SorryParentText == <<Part("parent_text", 0, 0, 0)>>

SubmitReason == Lit("invite submit button exists, invites can be sent")

CountReason(n) == <<Part("available invites: ", n, 0, 0)>>

TempReason(n) == <<Part("available temporary invites: ", n, 0, 0)>>

DisabledText == <<Part("disabled_text", 0, 0, 0)>>

PluginExtras ==
    {[sorry |-> so, submit |-> su, count_match |-> cm, temp_match |-> tm,
      special_title |-> FALSE, disabled_button |-> FALSE, special_rows |-> 0] :
        so \in {"none", "plain", "limit"}, su \in BOOLEAN,
        cm \in {NoMatch} \cup CountMatches,
        tm \in {NoMatch} \cup {m \in CountMatches : m.g2 = NoGroup}}
    \cup
    {[sorry |-> "none", submit |-> FALSE, count_match |-> NoMatch, temp_match |-> NoMatch,
      special_title |-> TRUE, disabled_button |-> db, special_rows |-> n] :
        db \in BOOLEAN, n \in {0, 1}}

\* the plugin's documents explore the quota region through the parent text
\* only and few restriction texts
PluginQuota ==
    {q \in QuotaBlocks : ~q.after_match.hit /\ q.invite_link = q.parent_match.hit}

PluginDocs ==
    {MkPageWith(q, tb, tx, f, 1, r, x) :
        q \in PluginQuota, tb \in Tables, tx \in WalkTexts, f \in BOOLEAN,
        r \in {0, 1}, x \in PluginExtras}

PluginPages == {p \in PluginDocs : p.rows > 0 => p.any_tables}

\* __init__.py 1524-1543: no form; a "sorry" text inside an element that
\* names a limit
SorryStatus(st, p) ==
    IF ~p.form /\ p.sorry = "limit"
    THEN [st EXCEPT !.can_invite = FALSE, !.reason = SorryParentText]
    ELSE st

\* has_restriction after __init__.py 1506-1543
HasRestriction(p) == ScanPatterns(p.text, 1) # 0 \/ (~p.form /\ p.sorry = "limit")

\* __init__.py 1545-1571
SubmitStatus(st, p) ==
    IF ~p.form /\ ~HasRestriction(p) /\ p.submit
    THEN [st EXCEPT !.can_invite = TRUE,
                    !.reason = IF st.reason = <<>> THEN SubmitReason ELSE st.reason]
    ELSE st

\* __init__.py 1585-1607
PageCountStatus(st, p) ==
    IF st.permanent_count = 0 /\ p.count_match.hit
    THEN LET m == p.count_match
             s1 == [st EXCEPT !.permanent_count = m.g1]
             s2 == IF m.g2 # NoGroup THEN [s1 EXCEPT !.temporary_count = m.g2] ELSE s1
         IN  IF m.g1 > 0 /\ ~HasRestriction(p)
             THEN [s2 EXCEPT !.can_invite = TRUE, !.reason = CountReason(m.g1)]
             ELSE s2
    ELSE st

\* __init__.py 1615-1627
TempCountStatus(st, p) ==
    IF st.temporary_count = 0 /\ p.temp_match.hit
    THEN LET n == p.temp_match.g1
             s1 == [st EXCEPT !.temporary_count = n]
         IN  IF n > 0 /\ ~HasRestriction(p) /\ ~s1.can_invite
             THEN [s1 EXCEPT !.can_invite = TRUE, !.reason = TempReason(n)]
             ELSE s1
    ELSE st

\* __init__.py 1809-1999: the special page structure, tried when the
\* title is special and the roster is still empty
SpecialStructure(r, p) ==
    IF p.special_title /\ r.invitees = <<>>
    THEN LET rows == IF p.special_rows = 0 THEN <<>> ELSE <<<<p.no, p.special_rows>>>>
             st == IF p.disabled_button
                   THEN [r.invite_status EXCEPT !.can_invite = FALSE, !.reason = DisabledText]
                   ELSE r.invite_status
         IN  [invite_status |-> st, invitees |-> rows]
    ELSE r

\* __init__.py 1387-2001
plugin_parse_nexusphp_invite_page(p) ==
    IF ~p.main_tables /\ ~p.any_tables
    THEN [invite_status |-> [QuotaStatus(p) EXCEPT !.reason = PageErrorReason],
          invitees |-> <<>>]
    ELSE LET s1 == RestrictionStatus(QuotaStatus(p), p.text)
             s2 == SubmitStatus(SorryStatus(FormStatus(s1, p), p), p)
             s3 == TempCountStatus(PageCountStatus(s2, p), p)
         IN  SpecialStructure([invite_status |-> s3, invitees |-> Roster(p)], p)

(***************************************************************************)
(* nexusinvitee._parse_mteam_invite_page.  The invite page as the parser   *)
(* reads it: state is "none" (no window.__INITIAL_STATE__ assignment),     *)
(* "invalid" (json.loads raises JSONDecodeError), "malformed" (the JSON    *)
(* value has not the expected shape, an operation on it raises) or "data"  *)
(* with inviteQuota absent or holding the two counts.                      *)
(***************************************************************************)
MTeamStates ==
    {[state |-> st, quota |-> FALSE, permanent |-> 0, temporary |-> 0] :
        st \in {"none", "invalid", "malformed", "data"}}
    \cup {[state |-> "data", quota |-> TRUE, permanent |-> a, temporary |-> b] :
            a \in Counts, b \in Counts}

\* __init__.py 2008-2019
MTeamResult ==
    [invitees |-> <<>>, sent_invites |-> <<>>, temp_invites |-> <<>>,
     invite_status |->
        [can_invite |-> FALSE, permanent_count |-> 0, temporary_count |-> 0,
         reason |-> <<>>, stats |-> "stats_data"]]

\* __init__.py 2066-2068: the value returned when parsing raised
EmptyDict == [k \in {} |-> <<>>]

\* __init__.py 2003-2068
parse_mteam_invite_page(m) ==
    IF m.state = "malformed" THEN EmptyDict
    ELSE IF m.state = "data" /\ m.quota
    THEN [MTeamResult EXCEPT
            !.invite_status.permanent_count = m.permanent,
            !.invite_status.temporary_count = m.temporary,
            !.invite_status.can_invite = (m.permanent > 0 \/ m.temporary > 0)]
    ELSE MTeamResult

(***************************************************************************)
(* nexusinvitee._get_site_invite_data.  A site is its indexer entry:       *)
(* known (an indexer of that name exists), selected (its id is in          *)
(* _site_ids), url / cookie / ua non-empty, the tokens its url contains,   *)
(* api_key and authorization present.                                      *)
(***************************************************************************)
Urls ==
    {{}, {"m-team"}, {"hdchina"}, {"totheglory"}, {"open.cd"}, {"moecat"},
     {"pterclub.com"}, {"m-team", "open.cd"}, {"hdchina", "moecat"}}

\* fields the code does not come to read are left at their defaults
Profiles ==
    {s \in [known : BOOLEAN, selected : BOOLEAN, url : BOOLEAN, tokens : Urls,
            cookie : BOOLEAN, ua : BOOLEAN, api_key : BOOLEAN,
            authorization : BOOLEAN] :
        /\ ~s.known => ~s.selected
        /\ ~s.selected => ~s.url /\ ~s.cookie /\ ~s.ua
        /\ ~(s.url /\ s.cookie /\ s.ua) => s.tokens = {}
        /\ "m-team" \notin s.tokens => ~s.api_key /\ ~s.authorization}

\* __init__.py 1046, 1094, 1113, 1180: the branch taken for a url
Kind(tokens) ==
    IF "m-team" \in tokens THEN "m-team"
    ELSE IF tokens \cap {"hdchina", "totheglory"} # {} THEN "special"
    ELSE IF tokens \cap {"open.cd", "moecat", "pterclub.com"} # {} THEN "slot"
    ELSE "standard"

\* the dict every failure branch of _get_site_invite_data builds
ErrorResult(msg) ==
    [error |-> msg,
     invite_status |->
        [can_invite |-> FALSE, permanent_count |-> 0, temporary_count |-> 0,
         reason |-> msg]]

SiteMissingText == Lit("site info does not exist")

SiteNotSelectedText == Lit("site is not selected")

SiteIncompleteText == Lit("site info incomplete, complete it in site management")

CookieInvalidText == Lit("cookie is invalid, update the site cookie")

ApiAuthText == Lit("API auth info incomplete, configure API Key and Authorization")

ApiFailedText == Lit("site API request failed: ") \o ExcText

SpecialFailedText == Lit("special site invite page request failed: ") \o ExcText

SlotFailedText == Lit("cat site invite page request failed: ") \o ExcText

InviteFailedText == Lit("invite page request failed: ") \o ExcText

NoSlotText == Lit("account limit reached, no slot available")

SlotReason == Lit("invites can be sent, slots available")

\* what the send-invite page (invite.php?type=new) shows: a takeinvite form,
\* a submit input, a no-slot text, a "sorry" text inside a td/div/p
SendPages ==
    [form : BOOLEAN, submit : BOOLEAN, no_slot : BOOLEAN, sorry : BOOLEAN]

\* __init__.py 1136-1166
SlotCheck(st, sp) ==
    IF sp.no_slot
    THEN [st EXCEPT !.can_invite = FALSE, !.reason = NoSlotText]
    ELSE IF ~sp.form
    THEN IF sp.sorry
         THEN [st EXCEPT !.can_invite = FALSE, !.reason = SendRestrictionText]
         ELSE st
    ELSE IF sp.submit
    THEN [st EXCEPT !.can_invite = TRUE,
                    !.reason = IF st.reason = <<>> THEN SlotReason ELSE st.reason]
    ELSE st

\* __init__.py 1199-1228
StandardSend(st, sp) ==
    IF sp.form
    THEN [st EXCEPT !.can_invite = TRUE, !.reason = SendReason]
    ELSE IF sp.sorry
    THEN [st EXCEPT !.can_invite = FALSE, !.reason = SendRestrictionText]
    ELSE st

\* a request is issued
Request(name) == requests' = Append(requests, name)

\* a call raised
Raise(name) == raised' = raised \cup {name}

\* __init__.py 956-966
SiteMissing ==
    /\ pc = "lookup"
    /\ ~site.known
    /\ Return(ErrorResult(SiteMissingText))
    /\ UNCHANGED <<cvars, wvars, svars, rvars, pvars>>

\* __init__.py 974-984
SiteNotSelected ==
    /\ pc = "lookup"
    /\ site.known /\ ~site.selected
    /\ Return(ErrorResult(SiteNotSelectedText))
    /\ UNCHANGED <<cvars, wvars, svars, rvars, pvars>>

\* a validation that runs after the cookie probe
SiteIncompleteAfterProbe ==
    /\ pc = "lookup"
    /\ site.known /\ site.selected
    /\ ~(site.url /\ site.cookie /\ site.ua)
    /\ Request("index.php")
    /\ Return(ErrorResult(SiteIncompleteText))
    /\ UNCHANGED <<cvars, wvars, site, raised, rvars, pvars>>

\* __init__.py 986-996
SiteIncomplete ==
    /\ pc = "lookup"
    /\ site.known /\ site.selected
    /\ ~(site.url /\ site.cookie /\ site.ua)
    /\ Return(ErrorResult(SiteIncompleteText))
    /\ UNCHANGED <<cvars, wvars, svars, rvars, pvars>>

\* __init__.py 1017-1018, 1247-1257: the probe of index.php raises
ProbeRaises ==
    /\ pc = "lookup"
    /\ site.known /\ site.selected /\ site.url /\ site.cookie /\ site.ua
    /\ Request("index.php") /\ Raise("index.php")
    /\ Return(ErrorResult(ExcText))
    /\ UNCHANGED <<cvars, wvars, site, rvars, pvars>>

\* __init__.py 1017-1029: the probe answers 403
ProbeForbidden ==
    /\ pc = "lookup"
    /\ site.known /\ site.selected /\ site.url /\ site.cookie /\ site.ua
    /\ Request("index.php")
    /\ Return(ErrorResult(CookieInvalidText))
    /\ UNCHANGED <<cvars, wvars, site, raised, rvars, pvars>>

\* __init__.py 1017-1019: the probe answers something else
ProbeOk ==
    /\ pc = "lookup"
    /\ site.known /\ site.selected /\ site.url /\ site.cookie /\ site.ua
    /\ Request("index.php")
    /\ pc' = "userid"
    /\ UNCHANGED <<ret, cvars, wvars, site, raised, rvars, pvars>>

\* __init__.py 1032-1043, 1259-1292: no id in usercp.php
PluginUserIdNone ==
    /\ pc = "userid"
    /\ Request("usercp.php")
    /\ Return(ErrorResult(UserIdReason))
    /\ UNCHANGED <<cvars, wvars, site, raised, rvars, pvars>>

\* __init__.py 1032-1043, 1290-1292: the lookup raises inside _get_user_id,
\* which returns None
PluginUserIdRaises ==
    /\ pc = "userid"
    /\ Request("usercp.php") /\ Raise("usercp.php")
    /\ Return(ErrorResult(UserIdReason))
    /\ UNCHANGED <<cvars, wvars, site, rvars, pvars>>

\* __init__.py 1032-1033
PluginUserIdFound ==
    /\ pc = "userid"
    /\ Request("usercp.php")
    /\ pc' = "route"
    /\ UNCHANGED <<ret, cvars, wvars, site, raised, rvars, pvars>>

\* __init__.py 1046-1061
MTeamNoAuth ==
    /\ pc = "route"
    /\ Kind(site.tokens) = "m-team"
    /\ ~(site.api_key /\ site.authorization)
    /\ Return(ErrorResult(ApiAuthText))
    /\ UNCHANGED <<cvars, wvars, svars, rvars, pvars>>

\* __init__.py 1069-1093: the statistic request, its .json() or the invite
\* request raises a RequestException
MTeamRequestFails ==
    /\ pc = "route"
    /\ Kind(site.tokens) = "m-team"
    /\ site.api_key /\ site.authorization
    /\ \E made \in {<<"api/statistic">>, <<"api/statistic", "invite">>} :
         /\ requests' = requests \o made
         /\ Raise(made[Len(made)])
    /\ Return(ErrorResult(ApiFailedText))
    /\ UNCHANGED <<cvars, wvars, site, rvars, pvars>>

\* __init__.py 1075, 1247-1257: .json() raises a ValueError that is no
\* RequestException
MTeamJsonRaises ==
    /\ pc = "route"
    /\ Kind(site.tokens) = "m-team"
    /\ site.api_key /\ site.authorization
    /\ Request("api/statistic") /\ Raise("json")
    /\ Return(ErrorResult(ExcText))
    /\ UNCHANGED <<cvars, wvars, site, rvars, pvars>>

\* __init__.py 1069-1082
MTeamParsed(states) ==
    /\ pc = "route"
    /\ Kind(site.tokens) = "m-team"
    /\ site.api_key /\ site.authorization
    /\ requests' = requests \o <<"api/statistic", "invite">>
    /\ \E m \in states :
         /\ raised' = IF m.state \in {"invalid", "malformed"}
                      THEN raised \cup {"parse"} ELSE raised
         /\ Return(parse_mteam_invite_page(m))
    /\ UNCHANGED <<cvars, wvars, site, rvars, pvars>>

\* invite.php?id=<user_id> and invite.php?id=<user_id>&type=new
InviteUrl == "invite.php"

SendUrl == "invite.php?type=new"

\* __init__.py 1097-1112: the invite page request of a special site raises
SpecialFails ==
    /\ pc = "route"
    /\ Kind(site.tokens) = "special"
    /\ Request(InviteUrl) /\ Raise(InviteUrl)
    /\ Return(ErrorResult(SpecialFailedText))
    /\ UNCHANGED <<cvars, wvars, site, rvars, pvars>>

\* __init__.py 1097-1101
SpecialParsed(pages) ==
    /\ pc = "route"
    /\ Kind(site.tokens) = "special"
    /\ Request(InviteUrl)
    /\ \E p \in pages : Return(plugin_parse_nexusphp_invite_page(p))
    /\ UNCHANGED <<cvars, wvars, site, raised, rvars, pvars>>

\* __init__.py 1116-1130, 1169-1179: the invite page or the send-invite
\* page request of a slot-checked site raises
SlotFails ==
    /\ pc = "route"
    /\ Kind(site.tokens) = "slot"
    /\ \E made \in {<<InviteUrl>>, <<InviteUrl, SendUrl>>} :
         /\ requests' = requests \o made
         /\ Raise(made[Len(made)])
    /\ Return(ErrorResult(SlotFailedText))
    /\ UNCHANGED <<cvars, wvars, site, rvars, pvars>>

\* __init__.py 1116-1168
SlotChecked(pages, sends) ==
    /\ pc = "route"
    /\ Kind(site.tokens) = "slot"
    /\ requests' = requests \o <<InviteUrl, SendUrl>>
    /\ \E p \in pages, sp \in sends :
         LET r == plugin_parse_nexusphp_invite_page(p)
         IN  Return([r EXCEPT !.invite_status = SlotCheck(@, sp)])
    /\ UNCHANGED <<cvars, wvars, site, raised, rvars, pvars>>

\* __init__.py 1182-1186, 1235-1245: the invite page request raises
StandardFails ==
    /\ pc = "route"
    /\ Kind(site.tokens) = "standard"
    /\ Request(InviteUrl) /\ Raise(InviteUrl)
    /\ Return(ErrorResult(InviteFailedText))
    /\ UNCHANGED <<cvars, wvars, site, rvars, pvars>>

\* __init__.py 1182-1193, 1230-1233: the send-invite page request raises,
\* the result of the invite page is returned as it is
StandardSendFails(pages) ==
    /\ pc = "route"
    /\ Kind(site.tokens) = "standard"
    /\ requests' = requests \o <<InviteUrl, SendUrl>>
    /\ Raise(SendUrl)
    /\ \E p \in pages : Return(plugin_parse_nexusphp_invite_page(p))
    /\ UNCHANGED <<cvars, wvars, site, rvars, pvars>>

\* __init__.py 1182-1233
StandardChecked(pages, sends) ==
    /\ pc = "route"
    /\ Kind(site.tokens) = "standard"
    /\ requests' = requests \o <<InviteUrl, SendUrl>>
    /\ \E p \in pages, sp \in sends :
         LET r == plugin_parse_nexusphp_invite_page(p)
         IN  Return([r EXCEPT !.invite_status = StandardSend(@, sp)])
    /\ UNCHANGED <<cvars, wvars, site, raised, rvars, pvars>>

\* __init__.py 1101, 1121, 1133, 1187, 1196, 1247-1257: parsing a page raises
ParseRaises ==
    /\ pc = "route"
    /\ Kind(site.tokens) # "m-team"
    /\ Request(InviteUrl) /\ Raise("parse")
    /\ Return(ErrorResult(ExcText))
    /\ UNCHANGED <<cvars, wvars, site, rvars, pvars>>

\* the steps of _get_site_invite_data on pages and M-Team states
SiteStep(pages, sends, states) ==
    \/ SiteMissing
    \/ SiteNotSelected
    \/ SiteIncomplete
    \/ ProbeRaises
    \/ ProbeForbidden
    \/ ProbeOk
    \/ PluginUserIdNone
    \/ PluginUserIdRaises
    \/ PluginUserIdFound
    \/ MTeamNoAuth
    \/ MTeamRequestFails
    \/ MTeamJsonRaises
    \/ MTeamParsed(states)
    \/ SpecialFails
    \/ SpecialParsed(pages)
    \/ SlotFails
    \/ SlotChecked(pages, sends)
    \/ StandardFails
    \/ StandardSendFails(pages)
    \/ StandardChecked(pages, sends)
    \/ ParseRaises

(***************************************************************************)
(* _get_site_invite_data on one site (specification SpecSite).             *)
(***************************************************************************)
\* the invite pages of the site pipelines: few restriction texts, page
\* counts and rosters left out
SitePages ==
    {MkPageWith(q, tb, tx, f, 1, 0,
                [NoExtras EXCEPT !.sorry = so, !.submit = su]) :
        q \in PluginQuota,
        tb \in {t \in Tables : t.main_tables = t.any_tables},
        tx \in {{}, {10}}, f \in BOOLEAN,
        so \in {"none", "limit"}, su \in BOOLEAN}

InitSite ==
    /\ pc = "lookup"
    /\ site \in Profiles
    /\ requests = <<>>
    /\ raised = {}
    /\ WalkIdle /\ ClassifyIdle /\ RefreshIdle

NextSite == SiteStep(SitePages, SendPages, MTeamStates)

SpecSite == InitSite /\ [][NextSite]_vars

(***************************************************************************)
(* nexusinvitee.refresh_all_sites, from the loop over valid_sites on       *)
(* (specification SpecRefresh).  idx sites have been processed; outcomes   *)
(* keeps for each of them whether _get_site_invite_data failed, whether a  *)
(* call raised and, if it did not fail, the dict it returned.              *)
(***************************************************************************)
\* the fetch of a site failed: no structured result, or an error result
FailingSite(site_data) == ~Has(site_data, "invite_status") \/ Has(site_data, "error")

Outcome(site_data, calls) ==
    [failed |-> FailingSite(site_data),
     raised |-> calls # {},
     data |-> IF FailingSite(site_data) THEN EmptyDict ELSE site_data]

SiteName(i) == <<"site", i>>

SiteList(n) == [i \in 1..n |-> SiteName(i)]

\* a cache entry written by an earlier refresh
StaleEntry == [data |-> ErrorResult(Lit("stale")), last_update |-> "earlier"]

\* __init__.py 2252-2255
CacheEntry(site_data) == [data |-> site_data, last_update |-> "time.time()"]

\* a loop that takes every returned site_data for a success
SucceededAlways(site_data) == TRUE

\* a loop that tests the truth value of site_data only
SucceededUnlessEmpty(site_data) == DOMAIN site_data # {}

\* __init__.py 2250: site_data and not site_data.get("error")
Succeeded(site_data) ==
    /\ DOMAIN site_data # {}
    /\ ~(Has(site_data, "error") /\ site_data.error # <<>>)

\* the name of a site of the list is looked up again by
\* _get_site_invite_data; one profile of every kind
RefreshProfiles ==
    {s \in Profiles :
        /\ s.url = s.cookie /\ s.cookie = s.ua
        /\ s.tokens \in {{}, {"m-team"}, {"hdchina"}, {"open.cd"}}
        /\ s.api_key = s.authorization}

RefreshPages ==
    {p \in SitePages :
        /\ p.main_tables /\ p.text = {} /\ ~p.form /\ p.sorry = "none" /\ ~p.submit
        /\ p.info_block = p.invite_link
        /\ p.parent_match.hit => (p.parent_match.g1 = MaxCount /\ p.parent_match.g2 = NoGroup)}

RefreshSends == {sp \in SendPages : ~sp.no_slot /\ ~sp.sorry /\ sp.form = sp.submit}

RefreshStates ==
    {m \in MTeamStates :
        /\ m.state \in {"malformed", "data"}
        /\ m.quota => (m.permanent = MaxCount /\ m.temporary = 0)}

InitRefresh ==
    /\ pc = "refresh"
    /\ valid_sites \in {SiteList(n) : n \in 1..MaxSites}
    /\ idx = 0
    /\ success_count = 0
    /\ error_count = 0
    /\ cached_data \in {[n \in S |-> StaleEntry] :
                          S \in {{}, {valid_sites[i] : i \in 1..Len(valid_sites)}}}
    /\ outcomes = <<>>
    /\ WalkIdle /\ ClassifyIdle /\ SiteIdle

\* __init__.py 2246-2249: the next site of the list is handed to
\* _get_site_invite_data
StartSite ==
    /\ pc = "refresh"
    /\ idx < Len(valid_sites)
    /\ site' \in RefreshProfiles
    /\ requests' = <<>>
    /\ raised' = {}
    /\ pc' = "lookup"
    /\ UNCHANGED <<ret, cvars, wvars, rvars, pvars>>

\* __init__.py 2249-2266: what the loop does with the returned site_data
RecordSite ==
    /\ pc = "done"
    /\ idx < Len(valid_sites)
    /\ LET site_name == valid_sites[idx + 1]
       IN  IF Succeeded(ret)
           THEN /\ cached_data' = Put(cached_data, site_name, CacheEntry(ret))
                /\ success_count' = success_count + 1
                /\ UNCHANGED error_count
           ELSE /\ error_count' = error_count + 1
                /\ UNCHANGED <<cached_data, success_count>>
    /\ outcomes' = Append(outcomes, Outcome(ret, raised))
    /\ idx' = idx + 1
    /\ pc' = "refresh"
    /\ UNCHANGED <<ret, cvars, wvars, svars, valid_sites, pvars>>

\* __init__.py 2268-2276
RefreshReturns ==
    /\ pc = "refresh"
    /\ idx = Len(valid_sites)
    /\ ret' = [success |-> success_count, error |-> error_count]
    /\ pc' = "refreshed"
    /\ UNCHANGED <<cvars, wvars, svars, rvars, pvars>>

NextRefresh ==
    \/ StartSite
    \/ SiteStep(RefreshPages, RefreshSends, RefreshStates)
    \/ RecordSite
    \/ RefreshReturns

SpecRefresh == InitRefresh /\ [][NextRefresh]_vars

(***************************************************************************)
(* The page parsers applied to one document (specification SpecClassify).  *)
(* cres.parser names the parser that produced cres.                        *)
(***************************************************************************)
Parsed(name, r) ==
    [parser |-> name, invite_status |-> r.invite_status, invitees |-> r.invitees]

InitClassify ==
    /\ pc = "page"
    /\ (page \in Pages \/ page \in PluginPages)
    /\ cres = result
    /\ RowIdle
    /\ WalkIdle /\ SiteIdle /\ RefreshIdle /\ ParseIdle

\* nexusphp.py 110: the handler parses the first page
ParseFirstPage ==
    /\ pc = "page"
    /\ cres' = Parsed("handler", parse_nexusphp_invite_page(page, FALSE))
    /\ pc' = "parsed"
    /\ UNCHANGED <<ret, page, row, row_invitees, size_text, bytes, send_page, wvars, svars, rvars, pvars>>

\* nexusphp.py 134: the handler parses a follow-up page
ParseNextPage ==
    /\ pc = "page"
    /\ cres' = Parsed("handler_next", parse_nexusphp_invite_page(page, TRUE))
    /\ pc' = "parsed"
    /\ UNCHANGED <<ret, page, row, row_invitees, size_text, bytes, send_page, wvars, svars, rvars, pvars>>

\* __init__.py 1110, 1126, 1186: the plugin parses the invite page
ParsePlugin ==
    /\ pc = "page"
    /\ cres' = Parsed("plugin", plugin_parse_nexusphp_invite_page(page))
    /\ pc' = "parsed"
    /\ UNCHANGED <<ret, page, row, row_invitees, size_text, bytes, send_page, wvars, svars, rvars, pvars>>

NextClassify ==
    \/ ParseFirstPage
    \/ ParseNextPage
    \/ ParsePlugin

SpecClassify == InitClassify /\ [][NextClassify]_vars

(***************************************************************************)
(* Cell texts and the numeric normalizer.  A text is the sequence of its   *)
(* characters; a character outside ASCII is written by its code point      *)
(* ("U+221E" is the infinity sign).  A float is [huge, milli, e1024] and   *)
(* stands for milli / 1000 * 1024 ^ e1024, with milli not a multiple of    *)
(* 1024 (one record per value); huge marks 1e20, which is above every      *)
(* value a text of the explored sets denotes.  The explored numbers have   *)
(* at most three decimals.                                                 *)
(***************************************************************************)
DigitChars == <<"0", "1", "2", "3", "4", "5", "6", "7", "8", "9">>

UpperChars ==
    <<"A", "B", "C", "D", "E", "F", "G", "H", "I", "J", "K", "L", "M",
      "N", "O", "P", "Q", "R", "S", "T", "U", "V", "W", "X", "Y", "Z">>

LowerChars ==
    <<"a", "b", "c", "d", "e", "f", "g", "h", "i", "j", "k", "l", "m",
      "n", "o", "p", "q", "r", "s", "t", "u", "v", "w", "x", "y", "z">>

Index(cs, c) == CHOOSE i \in 1..Len(cs) : cs[i] = c

InSeq(cs, c) == \E i \in 1..Len(cs) : cs[i] = c

isdigit(c) == InSeq(DigitChars, c)

isspace(c) == c = " "

\* str.lower, str.upper
lower(s) ==
    [i \in 1..Len(s) |->
        IF InSeq(UpperChars, s[i]) THEN LowerChars[Index(UpperChars, s[i])] ELSE s[i]]

upper(s) ==
    [i \in 1..Len(s) |->
        IF InSeq(LowerChars, s[i]) THEN UpperChars[Index(LowerChars, s[i])] ELSE s[i]]

\* str.strip
RECURSIVE strip(_)
strip(s) ==
    IF s = <<>> THEN s
    ELSE IF isspace(Head(s)) THEN strip(Tail(s))
    ELSE IF isspace(s[Len(s)]) THEN strip(SubSeq(s, 1, Len(s) - 1))
    ELSE s

\* kw in s
Contains(s, kw) ==
    \E i \in 0..(Len(s) - Len(kw)) : SubSeq(s, i + 1, i + Len(kw)) = kw

\* any(kw in s for kw in kws)
ContainsAny(s, kws) == \E k \in 1..Len(kws) : Contains(s, kws[k])

\* s.replace(',', '.')
ReplaceCommas(s) == [i \in 1..Len(s) |-> IF s[i] = "," THEN "." ELSE s[i]]

RECURSIVE Scale(_, _)
Scale(m, e) ==
    IF m = 0 THEN [huge |-> FALSE, milli |-> 0, e1024 |-> 0]
    ELSE IF m % 1024 = 0 THEN Scale(m \div 1024, e + 1)
    ELSE [huge |-> FALSE, milli |-> m, e1024 |-> e]

Float(m) == Scale(m, 0)

Sentinel == [huge |-> TRUE, milli |-> 0, e1024 |-> 0]            \* 1e20

ValueError == [huge |-> FALSE, milli |-> 0 - 1, e1024 |-> 0]     \* float() raised

\* a >= b
GE(a, b) ==
    IF a.huge # b.huge THEN a.huge
    ELSE LET e == IF a.e1024 < b.e1024 THEN a.e1024 ELSE b.e1024
         IN  a.milli * 1024 ^ (a.e1024 - e) >= b.milli * 1024 ^ (b.e1024 - e)

RECURSIVE ToInt(_)
ToInt(ds) ==
    IF ds = <<>> THEN 0
    ELSE 10 * ToInt(SubSeq(ds, 1, Len(ds) - 1)) + (Index(DigitChars, ds[Len(ds)]) - 1)

\* the first three decimals of a fraction, as thousandths
Thousandths(ds) ==
    ToInt(SubSeq(ds \o <<"0", "0", "0">>, 1, 3))

\* float(s) for the texts of the explored sets: blanks around the number are
\* skipped, the number is digits with at most one point and at least one
\* digit; everything else raises ValueError.  (Signs, exponents and the words
\* inf, infinity and nan, which float() also accepts, reach float() in none
\* of the explored texts.)
ParseFloat(s) ==
    LET t == strip(s)
        dots == {i \in 1..Len(t) : t[i] = "."}
    IN  IF \/ \A i \in 1..Len(t) : ~isdigit(t[i])
           \/ \E i \in 1..Len(t) : ~isdigit(t[i]) /\ t[i] # "."
           \/ Cardinality(dots) > 1
        THEN ValueError
        ELSE LET p == IF dots = {} THEN Len(t) + 1 ELSE CHOOSE i \in dots : TRUE
             IN  Float(1000 * ToInt(SubSeq(t, 1, p - 1))
                       + Thousandths(SubSeq(t, p + 1, Len(t))))

(***************************************************************************)
(* nexusinvitee._convert_size_to_bytes (__init__.py 1294-1368).            *)
(***************************************************************************)
UnitLetters == <<"K", "M", "G", "T", "P", "E", "Z", "Y">>

\* the units table: unit -> the power of 1024 it stands for
units ==
    [u \in {<<"B">>} \cup {<<UnitLetters[k], "B">> : k \in 1..8}
                     \cup {<<UnitLetters[k], "I", "B">> : k \in 1..8} |->
        IF Len(u) = 1 THEN 0 ELSE Index(UnitLetters, u[1])]

NoSizeMatch == <<>>

\* re.match(r'([\d.]+)\s*([KMGTPEZY]?i?B)', s, re.IGNORECASE): <<group 1, group 2>>
SizeMatch(s) ==
    LET IsNum(i) == isdigit(s[i]) \/ s[i] = "."
        n == CHOOSE k \in 0..Len(s) :
                 /\ \A i \in 1..k : IsNum(i)
                 /\ (k = Len(s) \/ ~IsNum(k + 1))
        w == CHOOSE k \in n..Len(s) :
                 /\ \A i \in (n + 1)..k : isspace(s[i])
                 /\ (k = Len(s) \/ ~isspace(s[k + 1]))
        rest == upper(SubSeq(s, w + 1, Len(s)))
        a == IF rest # <<>> /\ InSeq(UnitLetters, rest[1]) THEN 1 ELSE 0
        b == IF Len(rest) > a /\ rest[a + 1] = "I" THEN 1 ELSE 0
    IN  IF n = 0 \/ Len(rest) < a + b + 1 THEN NoSizeMatch
        ELSE IF rest[a + b + 1] # "B" THEN NoSizeMatch
        ELSE <<SubSeq(s, 1, n), SubSeq(s, w + 1, w + a + b + 1)>>

convert_size_to_bytes(size_str) ==
    IF size_str = <<>> \/ strip(size_str) = <<>> THEN Float(0)
    ELSE IF \/ lower(size_str) = <<"i", "n", "f", ".">>
            \/ lower(size_str) = <<"i", "n", "f">>
            \/ size_str = <<"U+221E">>
    THEN Sentinel
    ELSE LET s == ReplaceCommas(size_str)
             matches == SizeMatch(s)
         IN  IF matches = NoSizeMatch
             THEN IF ParseFloat(s) = ValueError THEN Float(0) ELSE ParseFloat(s)
             ELSE LET size_value == ParseFloat(matches[1])
                      unit == upper(matches[2])
                  IN  IF size_value = ValueError THEN Float(0)
                      ELSE IF unit \notin DOMAIN units THEN size_value
                      ELSE Scale(size_value.milli, size_value.e1024 + units[unit])

(***************************************************************************)
(* The ratio cell.  The handler strips digit-flanked commas before it      *)
(* turns the remaining ones into points (nexusphp.py 540-559); the         *)
(* plugin's parser turns every comma into a point (__init__.py 1739).      *)
(***************************************************************************)
RECURSIVE StripThousands(_)
StripThousands(s) ==
    LET ps == {pos \in 2..(Len(s) - 1) :
                   s[pos] = "," /\ isdigit(s[pos - 1]) /\ isdigit(s[pos + 1])}
    IN  IF ps = {} THEN s
        ELSE LET pos == CHOOSE p \in ps : \A q \in ps : p <= q
             IN  StripThousands(SubSeq(s, 1, pos - 1) \o SubSeq(s, pos + 1, Len(s)))

FloatOrZero(s) == IF ParseFloat(s) = ValueError THEN Float(0) ELSE ParseFloat(s)

Dashes == <<"-", "-", "-">>

InfinitySign == <<"U+221E">>

\* nexusphp.py 530: inf., inf, wu xian (U+65E0 U+9650), infinite, the infinity sign
HandlerInfinite ==
    {<<"i", "n", "f", ".">>, <<"i", "n", "f">>, <<"U+65E0", "U+9650">>,
      <<"i", "n", "f", "i", "n", "i", "t", "e">>, <<"U+221E">>}

\* __init__.py 1728
PluginInfinite ==
    {<<"i", "n", "f", ".">>, <<"i", "n", "f">>, <<"U+65E0", "U+9650">>}

\* the ratio column: <<invitee["ratio"], invitee["ratio_value"]>>
RatioCell(cell_text, infinite, thousands) ==
    LET ratio_text ==
            IF cell_text = Dashes \/ cell_text = <<>> THEN <<"0">>
            ELSE IF lower(cell_text) \in infinite THEN InfinitySign
            ELSE cell_text
    IN  <<ratio_text,
          IF ratio_text = InfinitySign THEN Sentinel
          ELSE IF thousands THEN FloatOrZero(ReplaceCommas(StripThousands(ratio_text)))
          ELSE FloatOrZero(ReplaceCommas(ratio_text))>>

(***************************************************************************)
(* The roster row parsers.  A row is [classes, disabled_img, cells]: the   *)
(* class tokens of the <tr>, whether an img.disabled or img[alt=Disabled]  *)
(* is inside it, and its cells in column order, each with the text of the  *)
(* header cell above it.  Keyword lists are those of the source; the       *)
(* families after the ratio column that neither set enabled nor status     *)
(* are one family "other" (no header of the explored rows has one of       *)
(* their keywords before it reaches the plugin's status family).           *)
(***************************************************************************)
\* yong hu ming, username, ming zi, user
username_keywords ==
    <<<<"U+7528", "U+6237", "U+540D">>,
      <<"u", "s", "e", "r", "n", "a", "m", "e">>, <<"U+540D", "U+5B57">>,
      <<"u", "s", "e", "r">>>>

\* you xiang, email, dian zi you jian, mail
email_keywords ==
    <<<<"U+90AE", "U+7BB1">>, <<"e", "m", "a", "i", "l">>,
      <<"U+7535", "U+5B50", "U+90AE", "U+4EF6">>, <<"m", "a", "i", "l">>>>

\* qi yong, zhuang tai (traditional), enabled, status
enabled_keywords ==
    <<<<"U+542F", "U+7528">>, <<"U+72C0", "U+614B">>,
      <<"e", "n", "a", "b", "l", "e", "d">>,
      <<"s", "t", "a", "t", "u", "s">>>>

\* shang chuan (both scripts), uploaded, upload
uploaded_keywords ==
    <<<<"U+4E0A", "U+4F20">>, <<"U+4E0A", "U+50B3">>,
      <<"u", "p", "l", "o", "a", "d", "e", "d">>,
      <<"u", "p", "l", "o", "a", "d">>>>

\* xia zai (both scripts), downloaded, download
downloaded_keywords ==
    <<<<"U+4E0B", "U+8F7D">>, <<"U+4E0B", "U+8F09">>,
      <<"d", "o", "w", "n", "l", "o", "a", "d", "e", "d">>,
      <<"d", "o", "w", "n", "l", "o", "a", "d">>>>

\* fen xiang lv, fen xiang, ratio
ratio_keywords ==
    <<<<"U+5206", "U+4EAB", "U+7387">>, <<"U+5206", "U+4EAB">>,
      <<"r", "a", "t", "i", "o">>>>

\* zhuang tai (simplified, traditional), status
status_keywords ==
    <<<<"U+72B6", "U+6001">>, <<"U+72C0", "U+614B">>,
      <<"s", "t", "a", "t", "u", "s">>>>

\* jin (U+7981), disabled, banned
enabled_ban_words ==
    <<<<"U+7981">>, <<"d", "i", "s", "a", "b", "l", "e", "d">>,
      <<"b", "a", "n", "n", "e", "d">>>>

\* banned, disabled, jin zhi, feng jin
status_ban_words ==
    <<<<"b", "a", "n", "n", "e", "d">>,
      <<"d", "i", "s", "a", "b", "l", "e", "d">>, <<"U+7981", "U+6B62">>,
      <<"U+5C01", "U+7981">>>>

StatusBanned == <<"U+5DF2", "U+7981", "U+7528">>       \* yi jin yong

StatusConfirmed == <<"U+5DF2", "U+786E", "U+8BA4">>    \* yi que ren

ZeroTexts == {<<"0">>, <<"0", ".", "0", "0", " ", "K", "B">>}

\* the family of a header, by the elif chain of the column loop
Family(header, with_status) ==
    LET h == lower(header)
    IN  IF ContainsAny(h, username_keywords) THEN "username"
        ELSE IF ContainsAny(h, email_keywords) THEN "email"
        ELSE IF ContainsAny(h, enabled_keywords) THEN "enabled"
        ELSE IF ContainsAny(h, uploaded_keywords) THEN "uploaded"
        ELSE IF ContainsAny(h, downloaded_keywords) THEN "downloaded"
        ELSE IF ContainsAny(h, ratio_keywords) THEN "ratio"
        ELSE IF with_status /\ ContainsAny(h, status_keywords) THEN "status"
        ELSE "other"

\* one pass of the column loop; st is [invitee, is_banned]
Column(st, cell, plugin) ==
    LET family == Family(cell.header, plugin)
        cell_text == cell.text
        invitee == st.invitee
    IN  CASE family = "username" ->
                 [st EXCEPT !.invitee = Put(invitee, "username", cell_text)]
          [] family = "email" ->
                 [st EXCEPT !.invitee = Put(invitee, "email", cell_text)]
          [] family = "enabled" ->
                 IF \/ lower(cell_text) = <<"n", "o">>
                    \/ ContainsAny(lower(cell_text), enabled_ban_words)
                 THEN [invitee |-> Put(invitee, "enabled", "No"), is_banned |-> TRUE]
                 ELSE [st EXCEPT !.invitee = Put(invitee, "enabled", "Yes")]
          [] family = "uploaded" ->
                 [st EXCEPT !.invitee = Put(invitee, "uploaded", cell_text)]
          [] family = "downloaded" ->
                 [st EXCEPT !.invitee = Put(invitee, "downloaded", cell_text)]
          [] family = "ratio" ->
                 LET r == IF plugin THEN RatioCell(cell_text, PluginInfinite, FALSE)
                          ELSE RatioCell(cell_text, HandlerInfinite, TRUE)
                 IN  [st EXCEPT !.invitee =
                          Put(Put(invitee, "ratio", r[1]), "ratio_value", r[2])]
          [] family = "status" /\ ~Has(invitee, "enabled") ->
                 IF ContainsAny(lower(cell_text), status_ban_words)
                 THEN [invitee |-> Put(Put(invitee, "status", cell_text), "enabled", "No"),
                       is_banned |-> TRUE]
                 ELSE [st EXCEPT !.invitee = Put(invitee, "status", cell_text)]
          [] OTHER -> st

RECURSIVE Columns(_, _, _)
Columns(st, cells, plugin) ==
    IF cells = <<>> THEN st
    ELSE Columns(Column(st, Head(cells), plugin), Tail(cells), plugin)

\* enabled and status of a row the columns left without them
Defaults(st) ==
    LET a == IF Has(st.invitee, "enabled") THEN st.invitee
             ELSE Put(st.invitee, "enabled", IF st.is_banned THEN "No" ELSE "Yes")
    IN  IF Has(a, "status") THEN a
        ELSE Put(a, "status", IF st.is_banned THEN StatusBanned ELSE StatusConfirmed)

\* nexusphp.py 620-630
IsZero(text) == text \in ZeroTexts \/ lower(text) = <<"0", "b">>

is_no_data(invitee) ==
    /\ Has(invitee, "uploaded") /\ Has(invitee, "downloaded")
    /\ IsZero(invitee.uploaded) /\ IsZero(invitee.downloaded)

\* the tiers of the row parsers
Tier(ratio_value) ==
    IF GE(ratio_value, Sentinel) THEN "excellent"
    ELSE IF GE(ratio_value, Float(1000)) THEN "good"
    ELSE IF GE(ratio_value, Float(500)) THEN "warning"
    ELSE "danger"

HandlerHealth(invitee) ==
    LET d == IF is_no_data(invitee) THEN Put(invitee, "data_status", "no data")
             ELSE invitee
    IN  IF is_no_data(invitee) THEN Put(d, "ratio_health", "neutral")
        ELSE IF Has(invitee, "ratio_value")
        THEN Put(d, "ratio_health", Tier(invitee.ratio_value))
        ELSE IF Has(invitee, "ratio") /\ invitee.ratio = InfinitySign
        THEN Put(d, "ratio_health", "excellent")
        ELSE Put(d, "ratio_health", "unknown")

PluginHealth(invitee) ==
    IF Has(invitee, "ratio_value")
    THEN Put(invitee, "ratio_health", Tier(invitee.ratio_value))
    ELSE invitee

EmptyInvitee == [k \in {} |-> <<>>]

\* is_banned before the column loop
RowBanned(r) ==
    r.classes \cap {"rowbanned", "banned", "disabled"} # {} \/ r.disabled_img

\* the rows one table row adds to result["invitees"]
ParseRow(r, plugin) ==
    LET st == Columns([invitee |-> EmptyInvitee, is_banned |-> RowBanned(r)],
                      r.cells, plugin)
        invitee == IF plugin THEN PluginHealth(Defaults(st))
                   ELSE HandlerHealth(Defaults(st))
    IN  IF Len(r.cells) < 3 THEN <<>>
        ELSE IF Has(invitee, "username") /\ invitee.username # <<>> THEN <<invitee>>
        ELSE <<>>


(***************************************************************************)
(* NexusPhpHandler._calculate_ratio_health and _get_health_from_ratio_value *)
(* (nexusphp.py 1072-1147), for cell texts as arguments.  The value is      *)
(* <<health, css class of the label>>.                                      *)
(***************************************************************************)
get_health_from_ratio_value(ratio) ==
    IF GE(ratio, Float(4000)) THEN <<"excellent", "text-success">>
    ELSE IF GE(ratio, Float(2000)) THEN <<"good", "text-success">>
    ELSE IF GE(ratio, Float(1000)) THEN <<"good", "text-success">>
    ELSE IF ~GE(Float(0), ratio)
    THEN IF GE(ratio, Float(400)) THEN <<"warning", "text-warning">>
         ELSE <<"danger", "text-error">>
    ELSE <<"neutral", "text-grey">>

\* nexusphp.py 1086-1087: '0', '', '0.0' or, in any case, '0b'
HealthZero(text) ==
    text \in {<<"0">>, <<>>, <<"0", ".", "0">>} \/ lower(text) = <<"0", "b">>

calculate_ratio_health(ratio_str, uploaded, downloaded) ==
    IF HealthZero(uploaded) /\ HealthZero(downloaded) THEN <<"neutral", "text-grey">>
    ELSE IF ratio_str = <<>> THEN <<"neutral", "text-grey">>
    ELSE IF ratio_str = InfinitySign \/ lower(ratio_str) \in HandlerInfinite
    THEN <<"excellent", "text-success">>
    ELSE LET ratio == ParseFloat(ReplaceCommas(StripThousands(ratio_str)))
         IN  IF ratio = ValueError THEN <<"neutral", "text-grey">>
             ELSE get_health_from_ratio_value(ratio)

(***************************************************************************)
(* The explored rows: Username, [Enabled], Uploaded, Downloaded, [Ratio],  *)
(* [Status], the bracketed columns present or not.                         *)
(***************************************************************************)
Cell(h, t) == [header |-> h, text |-> t]

RowClasses == {{}, {"rowbanned"}, {"disabled"}}

Usernames ==
    {<<>>, <<"a", "l", "i", "c", "e">>}

EnabledTexts ==
    {<<"Y", "e", "s">>, <<"N", "o">>}

\* Status, zhuang tai (simplified)
StatusHeaders ==
    {<<"S", "t", "a", "t", "u", "s">>, <<"U+72B6", "U+6001">>}

\* yi que ren, feng jin, Banned
StatusTexts ==
    {<<"U+5DF2", "U+786E", "U+8BA4">>, <<"U+5C01", "U+7981">>,
      <<"B", "a", "n", "n", "e", "d">>}

UploadTexts ==
    {<<"0">>, <<"0", " ", "B">>, <<"0", "B">>,
      <<"0", ".", "0", "0", " ", "K", "B">>,
      <<"0", ".", "0", "0", " ", "G", "B">>,
      <<"1", ".", "5", " ", "M", "B">>}

DownloadTexts ==
    {<<"0">>, <<"0", " ", "B">>, <<"0", ".", "0", "0", " ", "G", "B">>,
      <<"1", ".", "5", " ", "M", "B">>}

RatioTexts ==
    {<<>>, <<"-", "-", "-">>, <<"0">>, <<"0", ".", "4", "9", "9">>,
      <<"0", ".", "5">>, <<"0", ".", "9", "9", "9">>, <<"1">>,
      <<"4", ".", "0">>, <<"I", "n", "f", ".">>, <<"U+221E">>,
      <<"U+65E0", "U+9650">>, <<"I", "n", "f", "i", "n", "i", "t", "e">>,
      <<"1", ",", "2", "3", "4", ".", "5">>, <<"0", ",", "5">>}

EnabledColumns == {<<>>} \cup {<<Cell(<<"E", "n", "a", "b", "l", "e", "d">>, t)>> : t \in EnabledTexts}

StatusColumns == {<<>>} \cup {<<Cell(h, t)>> : h \in StatusHeaders, t \in StatusTexts}

RatioColumns == {<<>>} \cup {<<Cell(<<"R", "a", "t", "i", "o">>, t)>> : t \in RatioTexts}

Rows ==
    {[classes |-> c, disabled_img |-> i,
      cells |-> <<Cell(<<"U", "s", "e", "r", "n", "a", "m", "e">>, n)>> \o e
                \o <<Cell(<<"U", "p", "l", "o", "a", "d", "e", "d">>, u), Cell(<<"D", "o", "w", "n", "l", "o", "a", "d", "e", "d">>, d)>> \o r \o s] :
        c \in RowClasses, i \in BOOLEAN, n \in Usernames, e \in EnabledColumns,
        u \in UploadTexts, d \in DownloadTexts, r \in RatioColumns, s \in StatusColumns}

(***************************************************************************)
(* The row parsers applied to one row (specification SpecRow).             *)
(***************************************************************************)
InitRow ==
    /\ pc = "row"
    /\ row \in Rows
    /\ row_invitees = <<>>
    /\ size_text = <<>>
    /\ bytes = NoBytes
    /\ send_page = NoSend
    /\ WalkIdle /\ SiteIdle /\ RefreshIdle /\ ParseIdle
    /\ page = NextPage(0, 0)
    /\ cres = result

\* nexusphp.py 467-677
ParseRowHandler ==
    /\ pc = "row"
    /\ row_invitees' = ParseRow(row, FALSE)
    /\ pc' = "handler_row"
    /\ UNCHANGED <<ret, page, cres, row, size_text, bytes, send_page, wvars, svars, rvars, pvars>>

\* __init__.py 1664-1804
ParseRowPlugin ==
    /\ pc = "row"
    /\ row_invitees' = ParseRow(row, TRUE)
    /\ pc' = "plugin_row"
    /\ UNCHANGED <<ret, page, cres, row, size_text, bytes, send_page, wvars, svars, rvars, pvars>>

\* the text of the first cell of the row under a header of the family
CellText(r, family) ==
    LET hits == {i \in 1..Len(r.cells) : Family(r.cells[i].header, FALSE) = family}
    IN  IF hits = {} THEN <<>>
        ELSE r.cells[CHOOSE i \in hits : \A j \in hits : i <= j].text

\* nexusphp.py 1072-1131: _calculate_ratio_health on the texts of the row
CalculateRatioHealth ==
    /\ pc = "row"
    /\ \E ratio_str \in {CellText(row, "ratio")},
          uploaded \in {CellText(row, "uploaded")},
          downloaded \in {CellText(row, "downloaded")} :
          row_invitees' =
              <<[ratio_health |-> calculate_ratio_health(ratio_str, uploaded, downloaded)[1]]>>
    /\ pc' = "health"
    /\ UNCHANGED <<ret, page, cres, row, size_text, bytes, send_page, wvars, svars, rvars, pvars>>

NextRow ==
    \/ ParseRowHandler
    \/ ParseRowPlugin

SpecRow == InitRow /\ [][NextRow]_vars

(***************************************************************************)
(* The three ratio-health computations applied to one row that has only   *)
(* the username, traffic and ratio columns (specification SpecHealth).     *)
(***************************************************************************)
InitHealth ==
    /\ InitRow
    /\ row.classes = {} /\ ~row.disabled_img
    /\ \A i \in 1..Len(row.cells) :
           Family(row.cells[i].header, TRUE) \in {"username", "uploaded", "downloaded", "ratio"}

NextHealth ==
    \/ ParseRowHandler
    \/ ParseRowPlugin
    \/ CalculateRatioHealth

SpecHealth == InitHealth /\ [][NextHealth]_vars

(***************************************************************************)
(* _convert_size_to_bytes applied to one text (specification               *)
(* SpecNormalize).                                                         *)
(***************************************************************************)
SizeNumbers ==
    {<<"0">>, <<"0", ".", "0", "0">>, <<"1">>, <<"1", ".", "5">>,
      <<"1", "2">>, <<"1", ",", "2", "3", "4">>,
      <<"1", ",", "2", "3", "4", ".", "5">>, <<"0", ",", "5">>}

SizeUnits ==
    {<<>>, <<"B">>, <<"b">>, <<"K", "B">>, <<"K", "i", "B">>, <<"M", "B">>,
      <<"G", "B">>, <<"T", "i", "B">>}

\* inf, inf., the infinity sign, wu xian, infinite, in several cases
SentinelTexts ==
    {<<"i", "n", "f">>, <<"I", "n", "f", ".">>, <<"I", "N", "F">>,
      <<"U+221E">>, <<"U+65E0", "U+9650">>,
      <<"i", "n", "f", "i", "n", "i", "t", "e">>,
      <<"I", "n", "f", "i", "n", "i", "t", "e">>}

SizeTexts ==
    {n \o b \o u : n \in SizeNumbers, b \in {<<>>, <<" ">>}, u \in SizeUnits}
        \cup SentinelTexts \cup {<<>>, <<" ">>}

InitNormalize ==
    /\ pc = "size"
    /\ size_text \in SizeTexts
    /\ bytes = NoBytes
    /\ send_page = NoSend
    /\ row = NoRow
    /\ row_invitees = <<>>
    /\ WalkIdle /\ SiteIdle /\ RefreshIdle /\ ParseIdle
    /\ page = NextPage(0, 0)
    /\ cres = result

\* __init__.py 1375: a call of _convert_size_to_bytes
ConvertSize ==
    /\ pc = "size"
    /\ bytes' = convert_size_to_bytes(size_text)
    /\ pc' = "converted"
    /\ UNCHANGED <<ret, page, cres, row, row_invitees, size_text, send_page, wvars, svars, rvars, pvars>>

NextNormalize == ConvertSize

SpecNormalize == InitNormalize /\ [][NextNormalize]_vars

(***************************************************************************)
(* The plugin's send-invite checks applied to one invite page and one      *)
(* send-invite page (specification SpecSend): what _get_site_invite_data   *)
(* returns when both requests succeed.                                     *)
(***************************************************************************)
InitSend ==
    /\ pc = "probe"
    /\ page \in SitePages
    /\ send_page \in SendPages
    /\ cres = result
    /\ row = NoRow
    /\ row_invitees = <<>>
    /\ size_text = <<>>
    /\ bytes = NoBytes
    /\ WalkIdle /\ SiteIdle /\ RefreshIdle /\ ParseIdle

\* __init__.py 1182-1233: the pipeline of a standard site
SendStandard ==
    /\ pc = "probe"
    /\ LET r == plugin_parse_nexusphp_invite_page(page)
       IN  cres' = Parsed("standard", [r EXCEPT !.invite_status = StandardSend(@, send_page)])
    /\ pc' = "probed"
    /\ UNCHANGED <<ret, page, row, row_invitees, size_text, bytes, send_page, wvars, svars, rvars, pvars>>

\* __init__.py 1114-1168: the pipeline of a site with account slots
SendSlot ==
    /\ pc = "probe"
    /\ LET r == plugin_parse_nexusphp_invite_page(page)
       IN  cres' = Parsed("slot", [r EXCEPT !.invite_status = SlotCheck(@, send_page)])
    /\ pc' = "probed"
    /\ UNCHANGED <<ret, page, row, row_invitees, size_text, bytes, send_page, wvars, svars, rvars, pvars>>

NextSend ==
    \/ SendStandard
    \/ SendSlot

SpecSend == InitSend /\ [][NextSend]_vars

(***************************************************************************)
(* Properties of parse_invite_page (specification Spec).                   *)
(***************************************************************************)
\* the rows of the first n requested roster pages, in page order
HasRows(b) == b[2] > 0

Blocks(f, n) == SelectSeq([i \in 1..n |-> <<i, f[i]>>], HasRows)

LoopLeft == pc \in {"wallet", "send", "done"}

\* parse_invite_page returned the dict it assembled (not a failure dict)
ReturnedAssembled == pc = "done" /\ ret = invite_result

StatusFields ==
    {"can_invite", "reason", "permanent_count", "temporary_count", "bonus",
     "permanent_invite_price", "temporary_invite_price"}

\* C1: whenever page one matched a restriction phrase, the result returned
\* by parse_invite_page has can_invite = false, whatever the wallet merge
\* and the probe of the send-invite page did afterwards.
C1_RestrictionAlwaysWins ==
    (pc = "done" /\ first.restricted) => ~ret.invite_status.can_invite

\* C3: no roster page is requested after a page with fewer than page_size
\* rows; once the loop is left after such a page k, exactly k pages were
\* requested, the aggregate is the rows of pages 1..k in page order and the
\* cap was not reached; the loop is not left after a full page unless the
\* cap is reached.
C3_StopsAtFirstShortPage ==
    LET k == Len(fetched)
    IN  /\ \A j \in 1..(k - 1) : fetched[j] >= page_size
        /\ (LoopLeft /\ k >= 1 /\ fetched[k] >= 0 /\ fetched[k] < page_size)
              => /\ invite_result.invitees = Blocks(fetched, k)
                 /\ next_page < max_pages
                 /\ next_page = k - 1
        /\ (LoopLeft /\ k >= 1 /\ fetched[k] >= page_size) => k = max_pages
        /\ ReturnedAssembled => ret.invitees = Blocks(fetched, k)

\* C3 witness: pages of 50, 50 and 0 rows: 3 requests, 100 rows, returned
C3_Witness ==
    /\ ReturnedAssembled
    /\ fetched = <<page_size, page_size, 0>>
    /\ RowCount(ret.invitees) = 2 * page_size
    /\ next_page < max_pages

\* C4: at most max_pages roster pages are requested, the first included;
\* the loop variable is bounded by the cap; when the cap ends the loop,
\* the rows of all requested pages are kept, the status of page one is
\* untouched and no error is recorded.
C4_PaginationCapped ==
    /\ Len(fetched) <= max_pages
    /\ next_page <= max_pages
    /\ pc = "loop" => Len(fetched) = next_page
    /\ (pc = "wallet" /\ next_page = max_pages)
          => /\ Len(fetched) = max_pages
             /\ invite_result.invitees = Blocks(fetched, max_pages)
             /\ invite_result.invite_status = first.status
             /\ ~Has(invite_result, "error")
    /\ (ReturnedAssembled /\ next_page = max_pages)
          => /\ RowCount(ret.invitees) >= max_pages * page_size
             /\ ~Has(ret, "error")

\* C4 witness: every page was full, the cap ended the loop, the rows are returned
C4_Witness ==
    /\ ReturnedAssembled
    /\ next_page = max_pages
    /\ Len(fetched) = max_pages
    /\ \A j \in 1..max_pages : fetched[j] >= page_size

\* C7 (as claimed): a result short-circuited by an unresolvable user id or
\* a failed request carries an "error" field, can_invite = false and a
\* non-empty reason.
C7_ShortCircuitCarriesError ==
    (pc = "done" /\ ret.invite_status.reason \in {UserIdReason, ParseFailedReason})
        => /\ Has(ret, "error")
           /\ ~ret.invite_status.can_invite
           /\ ret.invite_status.reason # <<>>

\* C10: every returned result has an invite_status with the seven fields,
\* counts and prices being >= 0.
C10_SevenFields ==
    pc = "done" =>
        /\ Has(ret, "invite_status")
        /\ StatusFields \subseteq DOMAIN ret.invite_status
        /\ \A f \in StatusFields \ {"can_invite", "reason"} : ret.invite_status[f] >= 0

(***************************************************************************)
(* Properties of the page parsers (specification SpecClassify).            *)
(***************************************************************************)
FirstPageParsed == pc = "parsed" /\ cres.parser \in {"handler", "plugin"}

\* C2 (as claimed): a first page whose text matches a restriction phrase
\* and which holds a takeinvite.php form is classified can_invite = false,
\* its reason being the restriction text of the first matching pattern.
C2_RestrictionBeatsForm ==
    (FirstPageParsed /\ page.text # {} /\ page.form)
        => /\ ~cres.invite_status.can_invite
           /\ cres.invite_status.reason = RestrictionReason(ScanPatterns(page.text, 1))

\* the quota region of the page gave no invite count
NoCountFound(p) ==
    ~(p.info_block /\ p.invite_link /\ (p.parent_match.hit \/ p.after_match.hit))

\* C9 (as claimed): a first page with no invite count, no restriction
\* phrase and no send-invite form is classified by the handler's parser
\* can_invite = false with a non-empty reason.
C9_UndeterminedHasReason ==
    (pc = "parsed" /\ cres.parser = "handler"
        /\ NoCountFound(page) /\ page.text = {} /\ ~page.form)
        => /\ ~cres.invite_status.can_invite
           /\ cres.invite_status.reason # <<>>

(***************************************************************************)
(* Properties of _get_site_invite_data (specification SpecSite).           *)
(***************************************************************************)
\* the reasons that name a failed call
FailureReasons ==
    {ExcText, UserIdReason, ApiFailedText, SpecialFailedText, SlotFailedText,
     InviteFailedText}

\* C6 (as claimed): when a session call or a parse raised while the site
\* was processed, the returned dict has an invite_status with
\* can_invite = false and a reason that names the failure.
C6_FailuresAreReported ==
    (pc = "done" /\ raised # {})
        => /\ Has(ret, "invite_status")
           /\ ~ret.invite_status.can_invite
           /\ ret.invite_status.reason \in FailureReasons

\* C8 (as claimed): a returned invite_status with can_invite = true has a
\* non-empty reason, whichever pipeline built it.
C8_PermissionHasReason ==
    (pc = "done" /\ Has(ret, "invite_status") /\ ret.invite_status.can_invite)
        => ret.invite_status.reason # <<>>

(***************************************************************************)
(* Properties of refresh_all_sites (specification SpecRefresh).            *)
(***************************************************************************)
FailingSites == {i \in 1..Len(outcomes) : outcomes[i].failed}

RowParsed == pc \in {"handler_row", "plugin_row"}

\* the text is a number equal to zero, with or without a unit after it
ZeroAmount(t) ==
    IF SizeMatch(t) = NoSizeMatch THEN ParseFloat(t) = Float(0)
    ELSE ParseFloat(SizeMatch(t)[1]) = Float(0)

\* C11: every record whose uploaded and downloaded cells both amount to zero
\* bytes, in whatever spelling, has ratio_health "neutral".
C11_ZeroTrafficIsNeutral ==
    RowParsed =>
        \A i \in 1..Len(row_invitees) :
            ZeroAmount(row_invitees[i].uploaded) /\ ZeroAmount(row_invitees[i].downloaded)
                => /\ Has(row_invitees[i], "ratio_health")
                   /\ row_invitees[i].ratio_health = "neutral"

\* inf, inf., the infinity sign, wu xian, infinite
SentinelWords ==
    {<<"i", "n", "f">>, <<"i", "n", "f", ".">>, <<"U+221E">>,
      <<"U+65E0", "U+9650">>, <<"i", "n", "f", "i", "n", "i", "t", "e">>}

\* C12: the size converter maps every sentinel word, in any letter case, to
\* the one large value, and the empty text to 0.
C12_SentinelsAgree ==
    pc = "converted" =>
        /\ lower(size_text) \in SentinelWords => bytes = Sentinel
        /\ size_text = <<>> => bytes = Float(0)

\* C13: the size converter reads a text as it reads the text without its
\* digit-flanked commas: those are removed first, and only a comma that is
\* left becomes the decimal point.
C13_ThousandsBeforeDecimal ==
    pc = "converted" => bytes = convert_size_to_bytes(StripThousands(size_text))


FirstPattern(text) == CHOOSE i \in text : \A j \in text : i <= j

\* C16: when the quota text of a first page gives a count above zero and the
\* page text matches a restriction phrase, the handler's classifier returns
\* can_invite = false with the reason built from the match of the first
\* matching pattern in list order.
C16_RestrictionOverridesQuota ==
    (pc = "parsed" /\ cres.parser = "handler"
        /\ QuotaStatus(page).can_invite /\ page.text # {})
        => /\ ~cres.invite_status.can_invite
           /\ cres.invite_status.reason = RestrictionReason(FirstPattern(page.text))


\* the reason the quota text of the page gave (empty if none)
ParsedReason(p) == plugin_parse_nexusphp_invite_page(p).invite_status.reason

QuotaDerived(p) ==
    /\ QuotaStatus(p).can_invite
    /\ ParsedReason(p) = QuotaStatus(p).reason

\* C17: when the send-invite page holds the takeinvite.php form and no
\* restriction was found, the returned status has can_invite = true and
\* keeps the quota-derived reason the invite page gave.
C17_QuotaReasonPreserved ==
    (pc = "probed" /\ send_page.form /\ ~send_page.no_slot /\ QuotaDerived(page))
        => /\ cres.invite_status.can_invite
           /\ cres.invite_status.reason = ParsedReason(page)


\* the ban signals of a row: a banned or disabled row class, the disabled
\* icon, an enabled column reading "no", a status column with a ban word
EnabledHeaders ==
    <<<<"e", "n", "a", "b", "l", "e", "d">>, <<"U+542F", "U+7528">>,
      <<"U+555F", "U+7528">>>>
StatusHeaderWords ==
    <<<<"s", "t", "a", "t", "u", "s">>, <<"U+72B6", "U+6001">>,
      <<"U+72C0", "U+614B">>>>
BanWords ==
    <<<<"b", "a", "n", "n", "e", "d">>,
      <<"d", "i", "s", "a", "b", "l", "e", "d">>, <<"U+7981">>,
      <<"U+5C01", "U+7981">>>>

BanSignal(r) ==
    \/ r.classes \cap {"rowbanned", "banned", "disabled"} # {}
    \/ r.disabled_img
    \/ \E i \in 1..Len(r.cells) :
          \/ /\ ContainsAny(lower(r.cells[i].header), EnabledHeaders)
             /\ lower(r.cells[i].text) = <<"n", "o">>
          \/ /\ ContainsAny(lower(r.cells[i].header), StatusHeaderWords)
             /\ ContainsAny(lower(r.cells[i].text), BanWords)

\* C18: a parsed row with any ban signal yields a record with enabled "No",
\* whatever the other columns of the row say.
C18_BanSignalDisables ==
    pc = "handler_row" /\ BanSignal(row) =>
        \A i \in 1..Len(row_invitees) : row_invitees[i].enabled = "No"

\* C19: in a record whose status the parser derived itself, the status is
\* the banned one exactly when enabled is "No".
C19_EnabledAgreesWithStatus ==
    pc = "handler_row" =>
        \A i \in 1..Len(row_invitees) :
            row_invitees[i].status = StatusBanned <=> row_invitees[i].enabled = "No"


\* the tier the thresholds 1.0 and 0.5 give a ratio
ExpectedTier(v) ==
    IF v = Sentinel THEN "excellent"
    ELSE IF GE(v, Float(1000)) THEN "good"
    ELSE IF GE(v, Float(500)) THEN "warning"
    ELSE "danger"

\* the number a ratio text stands for
RatioNumber(text) ==
    IF lower(text) \in SentinelWords THEN Sentinel
    ELSE ParseFloat(ReplaceCommas(StripThousands(text)))

BothZero(r) == ZeroAmount(CellText(r, "uploaded")) /\ ZeroAmount(CellText(r, "downloaded"))

\* the row parsers give every record with a ratio value and some traffic
\* the tier of the thresholds 1.0 and 0.5
ParserTiers ==
    RowParsed /\ ~BothZero(row) =>
        \A i \in 1..Len(row_invitees) :
            Has(row_invitees[i], "ratio_value") =>
                /\ Has(row_invitees[i], "ratio_health")
                /\ row_invitees[i].ratio_health = ExpectedTier(row_invitees[i].ratio_value)

\* _calculate_ratio_health gives a numeric ratio text with some traffic the
\* tier of the thresholds 1.0 and 0.5
HelperTiers ==
    pc = "health" /\ ~BothZero(row) /\ RatioNumber(CellText(row, "ratio")) # ValueError =>
        row_invitees[1].ratio_health = ExpectedTier(RatioNumber(CellText(row, "ratio")))

\* C20: every ratio-health computation gives a record with a numeric ratio
\* and upload and download not both zero the tier "excellent" for the
\* sentinel, "good" from 1.0, "warning" from 0.5 and "danger" below.
C20_RatioTiers == ParserTiers /\ HelperTiers

(***************************************************************************)
(* The roster section of the two _parse_nexusphp_invite_page (nexusphp.py  *)
(* 432-687, __init__.py 1629-1807).  A document is the sequence of its     *)
(* <table> elements in document order; a table has the attribute           *)
(* border="1" or not, is a table.torrents under a table.main or not, and   *)
(* holds its <tr> elements, each with its class list, the disabled icon    *)
(* and the texts of its cells.  Tables are not nested in one another and   *)
(* the page title is not the one of the special structure.                 *)
(***************************************************************************)
roster_keywords ==
    <<<<"U+7528", "U+6237", "U+540D">>, <<"U+90AE", "U+7BB1">>,
      <<"e", "m", "a", "i", "l">>, <<"U+5206", "U+4EAB", "U+7387">>,
      <<"r", "a", "t", "i", "o">>,
      <<"u", "s", "e", "r", "n", "a", "m", "e">>>>

\* ' '.join(headers)
RECURSIVE JoinHeaders(_)
JoinHeaders(headers) ==
    IF headers = <<>> THEN <<>>
    ELSE IF Len(headers) = 1 THEN headers[1]
    ELSE headers[1] \o <<" ">> \o JoinHeaders(Tail(headers))

\* nexusphp.py 456-459
IsRosterHeader(headers) == ContainsAny(lower(JoinHeaders(headers)), roster_keywords)

\* nexusphp.py 485-490: the cells of a row under the headers; a cell beyond
\* the last header ends the column loop, as does a cell under a header of
\* no family
HeaderedRow(headers, tr) ==
    [classes |-> tr.classes, disabled_img |-> tr.disabled_img,
     cells |-> [i \in 1..Len(tr.texts) |->
                   Cell(IF i <= Len(headers) THEN headers[i] ELSE <<>>, tr.texts[i])]]

\* a row loop that ends at the first row it leaves out
RECURSIVE TableRowsUntilSkip(_, _, _)
TableRowsUntilSkip(headers, trs, plugin) ==
    IF trs = <<>> THEN <<>>
    ELSE IF ParseRow(HeaderedRow(headers, Head(trs)), plugin) = <<>> THEN <<>>
    ELSE ParseRow(HeaderedRow(headers, Head(trs)), plugin)
         \o TableRowsUntilSkip(headers, Tail(trs), plugin)

\* nexusphp.py 464-677: for row in rows
RECURSIVE TableRows(_, _, _)
TableRows(headers, trs, plugin) ==
    IF trs = <<>> THEN <<>>
    ELSE ParseRow(HeaderedRow(headers, Head(trs)), plugin)
         \o TableRows(headers, Tail(trs), plugin)

IsBorder(t) == t.border
IsTorrents(t) == t.torrents
IsLarge(t) == Len(t.trs) > 2

\* a selection that examines the tables of all three candidate sets
invitee_tables_of_all_sets(doc) ==
    SelectSeq(doc, LAMBDA t : IsBorder(t) \/ IsTorrents(t) \/ IsLarge(t))

\* nexusphp.py 432-444
invitee_tables(doc) ==
    IF SelectSeq(doc, IsBorder) # <<>> THEN SelectSeq(doc, IsBorder)
    ELSE IF SelectSeq(doc, IsTorrents) # <<>> THEN SelectSeq(doc, IsTorrents)
    ELSE SelectSeq(doc, IsLarge)

\* nexusphp.py 447-685: for table in invitee_tables
RECURSIVE ParseTables(_, _)
ParseTables(candidates, plugin) ==
    IF candidates = <<>> THEN <<>>
    ELSE LET table == Head(candidates)
         IN  IF table.trs = <<>> THEN ParseTables(Tail(candidates), plugin)
             ELSE IF ~IsRosterHeader(table.trs[1].texts)
             THEN ParseTables(Tail(candidates), plugin)
             ELSE LET invitees == TableRows(table.trs[1].texts, Tail(table.trs), plugin)
                  IN  IF invitees # <<>> THEN invitees
                      ELSE ParseTables(Tail(candidates), plugin)

\* header rows: with a username column, with an email column only, of another table
UserHeader == [classes |-> {}, disabled_img |-> FALSE, texts |-> <<<<"U", "s", "e", "r", "n", "a", "m", "e">>, <<"U", "p", "l", "o", "a", "d", "e", "d">>, <<"D", "o", "w", "n", "l", "o", "a", "d", "e", "d">>>>]
MailHeader == [classes |-> {}, disabled_img |-> FALSE, texts |-> <<<<"E", "m", "a", "i", "l">>, <<"U", "p", "l", "o", "a", "d", "e", "d">>, <<"D", "o", "w", "n", "l", "o", "a", "d", "e", "d">>>>]
OtherHeader == [classes |-> {}, disabled_img |-> FALSE, texts |-> <<<<"T", "i", "t", "l", "e">>, <<"S", "i", "z", "e">>, <<"A", "d", "d", "e", "d">>>>]

\* data rows: two members, a row of two cells, a row with an empty username
AliceRow == [classes |-> {}, disabled_img |-> FALSE, texts |-> <<<<"a", "l", "i", "c", "e">>, <<"1", ".", "5", " ", "M", "B">>, <<"1", ".", "5", " ", "M", "B">>>>]
CarolRow == [classes |-> {}, disabled_img |-> FALSE, texts |-> <<<<"c", "a", "r", "o", "l">>, <<"0">>, <<"0">>>>]
ShortRow == [classes |-> {}, disabled_img |-> FALSE, texts |-> <<<<"b", "o", "b">>, <<"1", ".", "5", " ", "M", "B">>>>]
UnnamedRow == [classes |-> {}, disabled_img |-> FALSE, texts |-> <<<<>>, <<"1", ".", "5", " ", "M", "B">>, <<"1", ".", "5", " ", "M", "B">>>>]

\* the <tr> lists explored: none, a table of another kind, a roster without
\* username column, and rosters under the username header
RowLists ==
    {<<>>, <<OtherHeader, AliceRow, CarolRow>>, <<MailHeader, AliceRow, CarolRow>>,
     <<UserHeader>>, <<UserHeader, AliceRow>>, <<UserHeader, AliceRow, CarolRow>>,
     <<UserHeader, ShortRow, UnnamedRow, CarolRow>>, <<UserHeader, UnnamedRow, ShortRow>>}

TableSet ==
    {[border |-> a[1], torrents |-> a[2], trs |-> trs] :
        a \in {<<TRUE, FALSE>>, <<FALSE, TRUE>>, <<FALSE, FALSE>>}, trs \in RowLists}

MaxTables == 2

Documents == UNION {[1..n -> TableSet] : n \in 0..MaxTables}

(***************************************************************************)
(* The roster section applied to one document (specification SpecTable).   *)
(***************************************************************************)
InitTable ==
    /\ pc = "document"
    /\ tables \in Documents
    /\ shop = NoShop /\ bonus_data = NoBonus
    /\ site_url = <<>> /\ matched = FALSE
    /\ WalkIdle /\ SiteIdle /\ RefreshIdle
    /\ page = NextPage(0, 0)
    /\ cres = result
    /\ row = NoRow /\ row_invitees = <<>>
    /\ size_text = <<>> /\ bytes = NoBytes /\ send_page = NoSend

\* nexusphp.py 432-687
RosterHandler ==
    /\ pc = "document"
    /\ row_invitees' = ParseTables(invitee_tables(tables), FALSE)
    /\ pc' = "handler_roster"
    /\ UNCHANGED <<ret, page, cres, row, size_text, bytes, send_page, wvars, svars, rvars, pvars>>

\* __init__.py 1629-1807
RosterPlugin ==
    /\ pc = "document"
    /\ row_invitees' = ParseTables(invitee_tables(tables), TRUE)
    /\ pc' = "plugin_roster"
    /\ UNCHANGED <<ret, page, cres, row, size_text, bytes, send_page, wvars, svars, rvars, pvars>>

NextTable ==
    \/ RosterHandler
    \/ RosterPlugin

SpecTable == InitTable /\ [][NextTable]_vars

(***************************************************************************)
(* Properties of the roster section (specification SpecTable).             *)
(***************************************************************************)
TableParsed == pc \in {"handler_roster", "plugin_roster"}

\* the usernames of a roster, in order
Names(invitees) == [i \in 1..Len(invitees) |-> invitees[i].username]

\* the rows of a table that have three cells or more and a non-empty text
\* under the username header
RECURSIVE KeptNames(_, _)
KeptNames(headers, trs) ==
    IF trs = <<>> THEN <<>>
    ELSE LET texts == Head(trs).texts
             cols == {i \in 1..Len(headers) :
                         i <= Len(texts) /\ Family(headers[i], FALSE) = "username"}
         IN  (IF Len(texts) >= 3 /\ \E i \in cols : texts[i] # <<>>
              THEN <<texts[CHOOSE i \in cols : TRUE]>> ELSE <<>>)
             \o KeptNames(headers, Tail(trs))

\* C22: every record of a roster has a non-empty username; a row of fewer
\* than three cells or without a resolvable username is left out, and the
\* rows after it are still parsed.
C22_UsernamesResolved ==
    TableParsed =>
        /\ \A i \in 1..Len(row_invitees) :
               Has(row_invitees[i], "username") /\ row_invitees[i].username # <<>>
        /\ Len(tables) = 1 /\ tables[1].border /\ tables[1].trs # <<>>
           /\ IsRosterHeader(tables[1].trs[1].texts)
               => Names(row_invitees) = KeptNames(tables[1].trs[1].texts, Tail(tables[1].trs))

C22_Witness ==
    /\ pc = "handler_roster"
    /\ tables = <<[border |-> TRUE, torrents |-> FALSE,
                   trs |-> <<UserHeader, ShortRow, UnnamedRow, CarolRow>>]>>
    /\ Names(row_invitees) = <<CarolRow.texts[1]>>

\* what a candidate table gives the roster
Yield(t, plugin) ==
    IF t.trs = <<>> THEN <<>>
    ELSE IF ~IsRosterHeader(t.trs[1].texts) THEN <<>>
    ELSE TableRows(t.trs[1].texts, Tail(t.trs), plugin)

\* the positions of the tables of the first non-empty candidate set
Chosen(doc) ==
    LET all == 1..Len(doc)
    IN  IF \E i \in all : doc[i].border THEN {i \in all : doc[i].border}
        ELSE IF \E i \in all : doc[i].torrents THEN {i \in all : doc[i].torrents}
        ELSE {i \in all : Len(doc[i].trs) > 2}

BadNumber == -1

\* nexusphp.py 836 and 969: the smallest value taken for a balance
min_bonus == 100

\* nexusphp.py 836:
\*   result["bonus"] < 100 and '时魔' in element_text or '每小时' in element_text
ElementRejects(value, element) ==
    (value < min_bonus /\ element.seed_bonus_word) \/ element.per_hour_word

\* nexusphp.py 826-847: for pattern in bonus_patterns, on one element
RECURSIVE ScanElement(_, _, _)
ScanElement(st, element, matches) ==
    IF matches = <<>> THEN st
    ELSE IF Head(matches) = BadNumber THEN ScanElement(st, element, Tail(matches))
    ELSE IF ElementRejects(Head(matches), element)
    THEN ScanElement([bonus |-> 0, bonus_found |-> FALSE], element, Tail(matches))
    ELSE [bonus |-> Head(matches), bonus_found |-> TRUE]

\* nexusphp.py 726-850: for element in bonus_elements
RECURSIVE ScanElements(_, _)
ScanElements(st, elements) ==
    IF elements = <<>> THEN st
    ELSE LET s1 == ScanElement(st, Head(elements), Head(elements).matches)
         IN  IF s1.bonus_found THEN s1 ELSE ScanElements(s1, Tail(elements))

\* nexusphp.py 969: result["bonus"] < 100 and ('时魔' in context_text or ...)
PageRejects(m) == m.value < min_bonus /\ m.hourly_context

\* nexusphp.py 958-978: for pattern in bonus_patterns, on the page text; a
\* rejected value stays in result["bonus"]
RECURSIVE ScanPage(_, _)
ScanPage(bonus, matches) ==
    IF matches = <<>> THEN bonus
    ELSE IF Head(matches).value = BadNumber THEN ScanPage(bonus, Tail(matches))
    ELSE IF PageRejects(Head(matches)) THEN ScanPage(Head(matches).value, Tail(matches))
    ELSE Head(matches).value

\* nexusphp.py 980-1064: the prices of the invite rows
RECURSIVE ScanPrices(_, _)
ScanPrices(res, rows) ==
    IF rows = <<>> THEN res
    ELSE LET price == Head(rows).price
             r1 == IF price = BadNumber \/ price <= 0 \/ price < min_price THEN res
                   ELSE IF Head(rows).temporary
                   THEN [res EXCEPT !.temporary_invite_price = price]
                   ELSE [res EXCEPT !.permanent_invite_price = price]
         IN  ScanPrices(r1, Tail(rows))

\* nexusphp.py 689-1070
parse_bonus_shop(doc) ==
    LET s1 == ScanElements([bonus |-> 0, bonus_found |-> FALSE], doc.elements)
        bonus == IF s1.bonus_found THEN s1.bonus ELSE ScanPage(s1.bonus, doc.page_matches)
    IN  ScanPrices([bonus |-> bonus, permanent_invite_price |-> 0,
                    temporary_invite_price |-> 0], doc.price_rows)

MaxElements == 2
MaxMatches == 2

\* a rate, the smallest balance, a number float() does not read
Numbers == {min_bonus \div 2, min_bonus, BadNumber}

SeqsUpTo(S, n) == UNION {[1..k -> S] : k \in 0..n}

Elements ==
    {[seed_bonus_word |-> w[1], per_hour_word |-> w[2], matches |-> ms] :
        w \in {<<FALSE, FALSE>>, <<TRUE, FALSE>>, <<FALSE, TRUE>>},
        ms \in SeqsUpTo(Numbers, MaxMatches)}

PageMatches ==
    {[value |-> min_bonus \div 2, hourly_context |-> TRUE],
     [value |-> min_bonus \div 2, hourly_context |-> FALSE],
     [value |-> min_bonus, hourly_context |-> TRUE],
     [value |-> BadNumber, hourly_context |-> FALSE]}

PriceRows ==
    {<<>>,
     <<[temporary |-> FALSE, price |-> 10 * min_price],
       [temporary |-> TRUE, price |-> min_price \div 2]>>}

Shops ==
    {[elements |-> es, page_matches |-> pm, price_rows |-> pr] :
        es \in SeqsUpTo(Elements, MaxElements), pm \in SeqsUpTo(PageMatches, MaxMatches),
        pr \in PriceRows}

(***************************************************************************)
(* _parse_bonus_shop applied to one document (specification SpecBonus).    *)
(***************************************************************************)
InitBonus ==
    /\ pc = "shop"
    /\ shop \in Shops
    /\ bonus_data = NoBonus
    /\ tables = <<>>
    /\ site_url = <<>> /\ matched = FALSE
    /\ WalkIdle /\ SiteIdle /\ RefreshIdle
    /\ page = NextPage(0, 0)
    /\ cres = result
    /\ row = NoRow /\ row_invitees = <<>>
    /\ size_text = <<>> /\ bytes = NoBytes /\ send_page = NoSend

\* nexusphp.py 689-1070
ParseBonusShop ==
    /\ pc = "shop"
    /\ bonus_data' = parse_bonus_shop(shop)
    /\ pc' = "shop_parsed"
    /\ UNCHANGED <<ret, cvars, wvars, svars, rvars, tables, shop, site_url, matched>>

NextBonus == ParseBonusShop

SpecBonus == InitBonus /\ [][NextBonus]_vars

(***************************************************************************)
(* Properties of _parse_bonus_shop (specification SpecBonus).              *)
(***************************************************************************)
\* the numbers matched in the elements that are readable and not under
\* min_bonus next to hourly wording
AcceptedInElements(doc) ==
    {v \in Numbers \ {BadNumber} :
        \E e \in 1..Len(doc.elements) :
            /\ \E k \in 1..Len(doc.elements[e].matches) : doc.elements[e].matches[k] = v
            /\ ~(v < min_bonus /\ (doc.elements[e].seed_bonus_word
                                   \/ doc.elements[e].per_hour_word))}

\* the same for the matches in the page text
AcceptedInPage(doc) ==
    {v \in Numbers \ {BadNumber} :
        \E k \in 1..Len(doc.page_matches) :
            /\ doc.page_matches[k].value = v
            /\ ~(v < min_bonus /\ doc.page_matches[k].hourly_context)}

\* C24: the bonus returned is never a match under min_bonus that stands
\* next to hourly wording: it is a match the filter lets pass, or 0.
C24_RejectedRateNotReturned ==
    pc = "shop_parsed" =>
        bonus_data.bonus \in AcceptedInElements(shop) \cup AcceptedInPage(shop) \cup {0}

\* the same for documents whose balance is found in an element
ElementPathFilters ==
    pc = "shop_parsed" /\ shop.page_matches = <<>> =>
        bonus_data.bonus \in AcceptedInElements(shop) \cup {0}

\* C30: a match of min_bonus or more is taken as the bonus and ends the
\* search, whatever wording stands next to it.
C30_PlausibleBalanceKept ==
    pc = "shop_parsed" =>
        /\ shop.elements # <<>> /\ shop.elements[1].matches # <<>>
           /\ shop.elements[1].matches[1] >= min_bonus
               => bonus_data.bonus = shop.elements[1].matches[1]
        /\ shop.elements = <<>> /\ shop.page_matches # <<>>
           /\ shop.page_matches[1].value >= min_bonus
               => bonus_data.bonus = shop.page_matches[1].value

\* the same for the matches in the page text alone
PagePathKeeps ==
    pc = "shop_parsed" /\ shop.elements = <<>> /\ shop.page_matches # <<>>
    /\ shop.page_matches[1].value >= min_bonus
        => bonus_data.bonus = shop.page_matches[1].value

(***************************************************************************)
(* NexusPhpHandler.match (nexusphp.py 21-71).                              *)
(***************************************************************************)
special_sites ==
    <<<<"m", "-", "t", "e", "a", "m">>,
      <<"t", "o", "t", "h", "e", "g", "l", "o", "r", "y">>,
      <<"h", "d", "c", "h", "i", "n", "a">>,
      <<"b", "u", "t", "t", "e", "r", "f", "l", "y">>,
      <<"d", "m", "h", "y">>, <<"U+8776", "U+7C89">>>>

nexus_features ==
    <<<<"p", "h", "p">>, <<"n", "e", "x", "u", "s">>,
      <<"a", "g", "s", "v", "p", "t">>,
      <<"a", "u", "d", "i", "e", "n", "c", "e", "s">>,
      <<"h", "d", "p", "t">>,
      <<"w", "i", "n", "t", "e", "r", "s", "a", "k", "u", "r", "a">>,
      <<"h", "d", "m", "a", "y", "i">>,
      <<"u", "2", ".", "d", "m", "h", "y">>,
      <<"h", "d", "d", "o", "l", "b", "y">>,
      <<"h", "d", "a", "r", "e", "a">>,
      <<"p", "t", ".", "s", "o", "u", "l", "v", "o", "i", "c", "e">>,
      <<"p", "t", "s", "b", "a", "o">>, <<"h", "d", "h", "o", "m", "e">>,
      <<"h", "d", "a", "t", "m", "o", "s">>, <<"1", "p", "t", "b", "a">>,
      <<"k", "e", "e", "p", "f", "r", "d", "s">>,
      <<"m", "o", "e", "c", "a", "t">>,
      <<"s", "p", "r", "i", "n", "g", "s", "u", "n", "d", "a", "y">>>>

\* a match that looks for the features before the special sites
match_features_first(url) ==
    \/ ContainsAny(lower(url), nexus_features)
    \/ ~ContainsAny(lower(url), special_sites) /\ Contains(lower(url), <<"p", "h", "p">>)

\* nexusphp.py 29-71
match(url) ==
    IF ContainsAny(lower(url), special_sites) THEN FALSE
    ELSE IF ContainsAny(lower(url), nexus_features) THEN TRUE
    ELSE Contains(lower(url), <<"p", "h", "p">>)

\* host labels and paths of the URLs explored
HostLabels ==
    {<<"e", "x", "a", "m", "p", "l", "e">>,
      <<"H", "D", "H", "o", "m", "e">>,
      <<"u", "2", ".", "d", "m", "h", "y">>,
      <<"M", "-", "T", "e", "a", "m">>,
      <<"k", "p", ".", "m", "-", "t", "e", "a", "m">>,
      <<"U+8776", "U+7C89">>,
      <<"p", "t", ".", "s", "o", "u", "l", "v", "o", "i", "c", "e">>,
      <<"h", "d", "c", "h", "i", "n", "a">>}

UrlPaths ==
    {<<>>, <<"/">>, <<"/", "i", "n", "d", "e", "x", ".", "p", "h", "p">>,
      <<"/", "L", "o", "g", "i", "n", ".", "P", "H", "P">>}

UrlScheme == <<"h", "t", "t", "p", "s", ":", "/", "/">>

UrlDot == <<".">>

UrlTld == <<".", "o", "r", "g">>

UrlTexts ==
    {UrlScheme \o a \o UrlDot \o b \o UrlTld \o p : a \in HostLabels, b \in HostLabels, p \in UrlPaths}

(***************************************************************************)
(* match applied to one URL (specification SpecMatch).                     *)
(***************************************************************************)
InitMatch ==
    /\ pc = "url"
    /\ site_url \in UrlTexts
    /\ matched = FALSE
    /\ tables = <<>> /\ shop = NoShop /\ bonus_data = NoBonus
    /\ WalkIdle /\ SiteIdle /\ RefreshIdle
    /\ page = NextPage(0, 0)
    /\ cres = result
    /\ row = NoRow /\ row_invitees = <<>>
    /\ size_text = <<>> /\ bytes = NoBytes /\ send_page = NoSend

\* nexusphp.py 21-71
MatchUrl ==
    /\ pc = "url"
    /\ matched' = match(site_url)
    /\ pc' = "matched"
    /\ UNCHANGED <<ret, cvars, wvars, svars, rvars, tables, shop, bonus_data, site_url>>

NextMatch == MatchUrl

SpecMatch == InitMatch /\ [][NextMatch]_vars

(***************************************************************************)
(* Properties of match (specification SpecMatch).                          *)
(***************************************************************************)
ExclusionTokens ==
    {<<"m", "-", "t", "e", "a", "m">>,
      <<"t", "o", "t", "h", "e", "g", "l", "o", "r", "y">>,
      <<"h", "d", "c", "h", "i", "n", "a">>,
      <<"b", "u", "t", "t", "e", "r", "f", "l", "y">>,
      <<"d", "m", "h", "y">>, <<"U+8776", "U+7C89">>}

InclusionFragments ==
    {<<"n", "e", "x", "u", "s">>, <<"a", "g", "s", "v", "p", "t">>,
      <<"a", "u", "d", "i", "e", "n", "c", "e", "s">>,
      <<"h", "d", "p", "t">>,
      <<"w", "i", "n", "t", "e", "r", "s", "a", "k", "u", "r", "a">>,
      <<"h", "d", "m", "a", "y", "i">>,
      <<"u", "2", ".", "d", "m", "h", "y">>,
      <<"h", "d", "d", "o", "l", "b", "y">>,
      <<"h", "d", "a", "r", "e", "a">>,
      <<"p", "t", ".", "s", "o", "u", "l", "v", "o", "i", "c", "e">>,
      <<"p", "t", "s", "b", "a", "o">>, <<"h", "d", "h", "o", "m", "e">>,
      <<"h", "d", "a", "t", "m", "o", "s">>, <<"1", "p", "t", "b", "a">>,
      <<"k", "e", "e", "p", "f", "r", "d", "s">>,
      <<"m", "o", "e", "c", "a", "t">>,
      <<"s", "p", "r", "i", "n", "g", "s", "u", "n", "d", "a", "y">>}

Excluded(url) == \E t \in ExclusionTokens : Contains(lower(url), t)

\* C26: a URL with an exclusion token is never matched; any other URL is
\* matched exactly when it holds, in any letter case, an inclusion fragment
\* or the marker "php".
C26_ExclusionFirst ==
    pc = "matched" =>
        /\ Excluded(site_url) => ~matched
        /\ ~Excluded(site_url) =>
              (matched <=> \/ \E f \in InclusionFragments : Contains(lower(site_url), f)
                           \/ Contains(lower(site_url), <<"p", "h", "p">>))

C26_Witness ==
    /\ pc = "matched"
    /\ Contains(site_url, <<"u", "2", ".", "d", "m", "h", "y">>)
    /\ Contains(site_url, <<".", "p", "h", "p">>)
    /\ ~matched

(***************************************************************************)
(* Properties of the records of a roster (specification SpecRow).          *)
(***************************************************************************)
\* C21: every record without a numeric ratio value has the health tier
\* "unknown".
C21_NoRatioIsUnknown ==
    RowParsed =>
        \A i \in 1..Len(row_invitees) :
            ~Has(row_invitees[i], "ratio_value") =>
                /\ Has(row_invitees[i], "ratio_health")
                /\ row_invitees[i].ratio_health = "unknown"

(***************************************************************************)
(* Properties of the wallet step of parse_invite_page (specification       *)
(* Spec).                                                                  *)
(***************************************************************************)
\* s ends with t
EndsWith(s, t) == Len(t) <= Len(s) /\ SubSeq(s, Len(s) - Len(t) + 1, Len(s)) = t

\* the step that merges the parsed bonus data into the status
WalletMerged ==
    /\ pc = "wallet" /\ pc' = "send"
    /\ Has(invite_result'.invite_status, "bonus")

\* C25: when the status before the wallet merge cannot invite and has both
\* counts 0, and the balance buys at least one invite at a price above 0,
\* the merged status can invite and its reason ends with the purchasable
\* quantities, whether or not a reason was set before.
C25_PurchaseEnables ==
    [][LET before == invite_result.invite_status
           after == invite_result'.invite_status
       IN  /\ WalletMerged
           /\ ~before.can_invite
           /\ before.permanent_count = 0 /\ before.temporary_count = 0
           /\ \/ CanBuy(after.bonus, after.permanent_invite_price) >= 1
              \/ CanBuy(after.bonus, after.temporary_invite_price) >= 1
           => /\ after.can_invite
              /\ EndsWith(after.reason,
                          InviteMethod([bonus |-> after.bonus,
                                        permanent_invite_price |-> after.permanent_invite_price,
                                        temporary_invite_price |-> after.temporary_invite_price]))]_vars

\* the same with a reason set before the merge
WalletWithReason ==
    [][LET before == invite_result.invite_status
           after == invite_result'.invite_status
       IN  /\ WalletMerged
           /\ ~before.can_invite /\ before.reason # <<>>
           /\ before.permanent_count = 0 /\ before.temporary_count = 0
           /\ \/ CanBuy(after.bonus, after.permanent_invite_price) >= 1
              \/ CanBuy(after.bonus, after.temporary_invite_price) >= 1
           => /\ after.can_invite
              /\ EndsWith(after.reason,
                          InviteMethod([bonus |-> after.bonus,
                                        permanent_invite_price |-> after.permanent_invite_price,
                                        temporary_invite_price |-> after.temporary_invite_price]))]_vars

(***************************************************************************)
(* The pagination loop over follow-up pages that carry quota text,         *)
(* restriction phrases and a send-invite form besides their rows.  The     *)
(* page answered last is kept in the variable page.                        *)
(***************************************************************************)
\* follow-up pages explored by SpecFollow
MaxFollow == 2

\* a quota block whose text states MaxCount permanent invites
FullQuota ==
    [info_block |-> TRUE, invite_link |-> TRUE,
     parent_match |-> [hit |-> TRUE, g1 |-> MaxCount, g2 |-> NoGroup],
     after_match |-> NoMatch]

NoQuota ==
    [info_block |-> FALSE, invite_link |-> FALSE, parent_match |-> NoMatch,
     after_match |-> NoMatch]

\* full first pages with or without quota, restriction phrase and form
FollowFirstPages ==
    {p \in FirstPages : /\ p.rows = page_size
                        /\ p.main_tables
                        /\ p.text \in {{}, {1}}}

\* follow-up pages with or without quota, restriction phrase and form
FollowPages(n) ==
    {MkPage(q, [main_tables |-> FALSE, any_tables |-> TRUE], tx, f, n, r) :
        q \in {NoQuota, FullQuota}, tx \in {{}, {1}}, f \in BOOLEAN, r \in RowChoices}

FetchFirstFull == FetchFirstFrom(FollowFirstPages)

\* nexusphp.py 125-154
FetchFollow ==
    /\ pc = "loop"
    /\ LoopGuard(next_page)
    /\ next_page <= MaxFollow
    /\ \E q \in FollowPages(next_page + 1) : page' = q /\ WalkNext(q)
    /\ UNCHANGED <<ret, cres, row, row_invitees, size_text, bytes, send_page, svars, rvars, first, pvars>>

NextFollow ==
    \/ UserIdFound
    \/ FetchFirstFull
    \/ FetchFollow
    \/ NextRaises
    \/ WalletSkipped
    \/ SendNothing

SpecFollow == Init /\ [][NextFollow]_vars

\* C27: a page after the first changes only the invitees list: the step that
\* handles a follow-up page leaves every field of the status as page one
\* set it, whatever quota text, restriction phrase or form the page holds,
\* and appends the page's rows.
C27_LaterPagesOnlyExtend ==
    [][(pc = "loop" /\ fetched' # fetched)
          => /\ invite_result'.invite_status = invite_result.invite_status
             /\ invite_result'.invite_status = first.status
             /\ fetched'[Len(fetched')] # FetchFailed
                   => invite_result' =
                        [invite_result EXCEPT !.invitees = @ \o Roster(page')]]_vars

C27_Witness ==
    /\ pc = "done"
    /\ ret = invite_result
    /\ Len(fetched) = MaxFollow + 1
    /\ page.parent_match.hit /\ page.info_block /\ page.invite_link
    /\ page.text # {}
    /\ page.form
    /\ page.rows > 0
    /\ ret.invite_status = first.status
    /\ ret.invite_status.permanent_count # page.parent_match.g1
    /\ ret.invite_status.reason = <<>>
    /\ RowCount(ret.invitees) > MaxFollow * page_size

(***************************************************************************)
(* Properties of the pagination loop when a follow-up request fails        *)
(* (specification Spec).                                                   *)
(***************************************************************************)
\* the last roster page requested was a follow-up page and its request raised
FollowUpFailed == Len(fetched) > 1 /\ fetched[Len(fetched)] = FetchFailed

\* C28: when the request of a follow-up roster page raises, the loop ends
\* with the rows of the pages before it kept in order and the status as it
\* was, no failure reason is recorded, and the wallet step and the
\* send-invite step follow; what is returned holds those rows.
C28_PartialRosterKept ==
    [][/\ (pc = "loop" /\ fetched' # fetched /\ fetched'[Len(fetched')] = FetchFailed)
           => /\ pc' = "wallet"
              /\ invite_result' = invite_result
              /\ invite_result.invitees = Blocks(fetched, Len(fetched))
              /\ invite_result.invite_status = first.status
              /\ invite_result.invite_status.reason # ParseFailedReason
       /\ (FollowUpFailed /\ pc = "wallet")
           => pc' = "send" /\ invite_result'.invitees = invite_result.invitees
       /\ (FollowUpFailed /\ pc = "send")
           => /\ pc' = "done"
              /\ ret' = invite_result' => ret'.invitees = Blocks(fetched, Len(fetched) - 1)]_vars

C28_Witness ==
    /\ ReturnedAssembled
    /\ fetched = <<page_size, FetchFailed>>
    /\ RowCount(ret.invitees) = page_size
    /\ Has(ret.invite_status, "bonus")

(***************************************************************************)
(* The order of validation and requests in _get_site_invite_data           *)
(* (specification SpecSite).                                               *)
(***************************************************************************)
\* the site passes the three checks made before the session is built
SiteValid == site.known /\ site.selected /\ site.url /\ site.cookie /\ site.ua

ValidationTexts == {SiteMissingText, SiteNotSelectedText, SiteIncompleteText}

\* C29: for a site that is unknown, not selected or without url, cookie or
\* user agent no request is ever issued and what is returned is the error
\* result of the failed check; when the probe of index.php answered 403 the
\* probe is the only request issued.
C29_ValidationBeforeRequests ==
    /\ ~SiteValid
          => /\ requests = <<>>
             /\ pc = "done"
                   => /\ Has(ret, "error")
                      /\ ret.error \in ValidationTexts
                      /\ ret = ErrorResult(ret.error)
    /\ (pc = "done" /\ ret = ErrorResult(CookieInvalidText))
          => requests = <<"index.php">>
    /\ (pc = "done" /\ SiteValid /\ requests = <<"index.php">> /\ raised = {})
          => ret = ErrorResult(CookieInvalidText)

C29_Witness ==
    /\ pc = "done"
    /\ SiteValid
    /\ ret = ErrorResult(CookieInvalidText)
    /\ requests = <<"index.php">>
    /\ raised = {}

\* a returned validation error with no request issued
ValidationWitness ==
    /\ pc = "done"
    /\ site.known /\ site.selected /\ ~site.cookie
    /\ ret = ErrorResult(SiteIncompleteText)
    /\ requests = <<>>

====
